---- MODULE Spec2Model ----
(***************************************************************************)
(* Navigation core of web-ar-navigation: the A* route planner              *)
(* (src/utils/aStarAlgorithm.ts), the route request layer                  *)
(* (DatabaseService.calculateRoute, apiService.calculateRoute), the geo     *)
(* navigation tracker (services/GeoNavigationService.ts) and the position  *)
(* estimator (ARCoreService: dead reckoning fused with position fixes).    *)
(*                                                                         *)
(* Numbers: planar coordinates and metre offsets are integers.  Math.sqrt  *)
(* is the integer square root; the planner's locations are drawn from      *)
(* layouts whose pairwise distances are integers, so there it is exact.    *)
(* In the tracker distances are only compared with integer thresholds,     *)
(* and floor(d) < T is equivalent to d < T for an integer T.               *)
(***************************************************************************)
EXTENDS Integers, Sequences, FiniteSets, TLC

\* ------------------------------------------------------------------ bounds
MaxConns == 5
MaxSessions == 1
MaxCached == 1
MaxRouteConns == 3
MaxSamples == 3
MaxTicks == 3
MaxFeeds == 3
MaxObserved == 3
MaxPathLen == 3
MaxArrivals == 2
MaxWatchCalls == 2
MaxWatchFixes == 2

\* ------------------------------------------------------- program constants
BaseThreshold == 10
AccuracyBuffer == 5
DefaultAccuracy == 5
FinalThreshold == 5
ArrivalCheck == 8

\* ------------------------------------------------------------- planner data
Ids == {"A", "B", "C", "D", "E"}
UnknownId == "Z"

\* Math.sqrt on the integers used here
RECURSIVE SqrtBetween(_, _, _)
\* the largest r in lo..hi with r * r <= n
SqrtBetween(n, lo, hi) ==
  IF lo >= hi THEN lo
  ELSE LET mid == (lo + hi + 1) \div 2
       IN IF mid * mid <= n THEN SqrtBetween(n, mid, hi) ELSE SqrtBetween(n, lo, mid - 1)

Sqrt(n) == SqrtBetween(n, 0, IF n < 40000 THEN n ELSE 40000)

\* Math.sin of d whole degrees, in thousandths
Sin1000(d) ==
  LET half == d % 180
      p == half * (180 - half)
      v == (4000 * p) \div (40500 - p)
  IN IF d % 360 < 180 THEN v ELSE 0 - v

Cos1000(d) == Sin1000((d + 90) % 360)

Abs(n) == IF n < 0 THEN 0 - n ELSE n

\* location layouts (every pairwise distance is an integer)
Layout1 == [A |-> [x |-> 0, y |-> 12], B |-> [x |-> 0, y |-> 0], C |-> [x |-> 5, y |-> 0],
            D |-> [x |-> 16, y |-> 0], E |-> [x |-> 0, y |-> -12]]
Layout2 == [A |-> [x |-> 0, y |-> 0], B |-> [x |-> 9, y |-> 0], C |-> [x |-> 0, y |-> 12],
            D |-> [x |-> 0, y |-> 12], E |-> [x |-> -5, y |-> 0]]
Layouts == {Layout1, Layout2}

\* the connection list a location set can carry, in storage order
CandidateConns == << [from |-> "A", to |-> "B"], [from |-> "A", to |-> "C"],
                     [from |-> "B", to |-> "D"], [from |-> "C", to |-> "D"],
                     [from |-> "D", to |-> "E"], [from |-> "B", to |-> "E"],
                     [from |-> "C", to |-> "E"], [from |-> "E", to |-> "A"],
                     [from |-> "C", to |-> "Z"] >>

RECURSIVE SelectSeq2(_, _, _)
\* the subsequence of s at the positions in keep, from position i on
SelectSeq2(s, keep, i) ==
  IF i > Len(s) THEN << >>
  ELSE (IF i \in keep THEN << s[i] >> ELSE << >>) \o SelectSeq2(s, keep, i + 1)

ConnectionLists ==
  { SelectSeq2(CandidateConns, keep, 1) :
      keep \in { k \in SUBSET (1..Len(CandidateConns)) : Cardinality(k) <= MaxConns } }

VARIABLES locations, connections, startId, goalId, openSet, closedSet, aPc, aResult,
          routeCache, routeRequest, dbOutcome, routeOutcome,
          path, currentStepIndex, currentState, updateCallback,
          locationSubscription, headingSubscription,
          posWatches, headWatches, trackingPc, sessions, emitted, stopped,
          isInitialized, isTracking, callbacks, motionSubscription, gpsSubscription,
          motionListeners, gpsWatches, testIntervals, arPc,
          currentPosition, velocity, heading, lastUpdateTime, startingGPS, stepDetector,
          clock, samples, notified, fixTimestamp,
          hybridIsTracking, hybridCallbacks, hybridPc, hybridSessions,
          observed, locationObjects,
          instructionInput, instructions, instructionPc,
          backendLocations, backendStart, backendGoal, backendOpen, backendClosed,
          cameFrom, gScore, fScore, backendPc, backendResult,
          arrivals,
          watchId, locationCallbacks, isWatching, lastKnownPosition, platformWatches,
          watchPc, watchStarts, watchFixes, delivered, isNavigating

aStarVars == << locations, connections, startId, goalId, openSet, closedSet, aPc, aResult >>

routeVars == << routeCache, routeRequest, dbOutcome, routeOutcome >>

plannerVars == << aStarVars, routeVars >>

trackerVars == << path, currentStepIndex, currentState, updateCallback,
                  locationSubscription, headingSubscription,
                  posWatches, headWatches, trackingPc, sessions, emitted, stopped >>

estimatorVars == << isInitialized, isTracking, callbacks, motionSubscription, gpsSubscription,
                    motionListeners, gpsWatches, testIntervals, arPc,
                    currentPosition, velocity, heading, lastUpdateTime, startingGPS,
                    stepDetector, clock, samples, notified, fixTimestamp >>

\* HybridNavigationService
hybridVars == << hybridIsTracking, hybridCallbacks, hybridPc, hybridSessions >>

\* what a recording subscriber holds: the snapshots it was handed, and the
\* location objects handleLocationUpdate has created (the last one is the
\* object currentState.currentLocation refers to)
recorderVars == << observed, locationObjects >>

\* generatePathInstructions: its argument, its result, and whether it has run
instructionVars == << instructionInput, instructions, instructionPc >>

\* the backend's AStar: its locations, the arguments of findPath, and
\* findPath's locals and result
backendVars == << backendLocations, backendStart, backendGoal, backendOpen, backendClosed,
                 cameFrom, gScore, fScore, backendPc, backendResult >>

\* the navigation screen: how often handleArrival has run
screenVars == << arrivals >>

\* LocationService: its fields, the watches registered with the platform,
\* the position of every startWatching call, and the callbacks the last fix
\* reached; isNavigating is the flag of the NavigationContext reducer
watchVars == << watchId, locationCallbacks, isWatching, lastKnownPosition, platformWatches,
               watchPc, watchStarts, watchFixes, delivered, isNavigating >>

\* the utilities and services beside the planner, tracker and estimator
peripheralVars == << instructionVars, backendVars, screenVars, watchVars >>

vars == << plannerVars, trackerVars, estimatorVars, hybridVars, recorderVars, peripheralVars >>

\* ---------------------------------------------------------------- planner
\* class Node
NewNode(id, x, y) == [id |-> id, x |-> x, y |-> y, g |-> 0, h |-> 0, f |-> 0, parent |-> << >>]

getF(node) == node.g + node.h

heuristic(nodeA, nodeB) ==
  LET dx == nodeB.x - nodeA.x
      dy == nodeB.y - nodeA.y
  IN Sqrt(dx * dx + dy * dy)

\* createGraph: nodes from the locations, one edge per connection whose two
\* ends are both locations
RECURSIVE createEdges(_, _, _)
\* one edge per connection, whether its ends are locations or not
createEdgesKeepAll(locs, conns, i) ==
  [j \in 1..Len(conns) |-> [from |-> conns[j].from, to |-> conns[j].to, distance |-> 0]]

createEdges(locs, conns, i) ==
  IF i > Len(conns) THEN << >>
  ELSE LET c == conns[i]
       IN (IF c.from \in DOMAIN locs /\ c.to \in DOMAIN locs
           THEN << [from |-> c.from, to |-> c.to,
                    distance |-> Sqrt((locs[c.to].x - locs[c.from].x) * (locs[c.to].x - locs[c.from].x)
                                      + (locs[c.to].y - locs[c.from].y) * (locs[c.to].y - locs[c.from].y))] >>
           ELSE << >>) \o createEdges(locs, conns, i + 1)

createGraph(locs, conns) == [nodes |-> locs, edges |-> createEdges(locs, conns, 1)]

RECURSIVE reconstructPath(_)
\* the coordinates of node alone, without the walk along the parent links
lastPointOnly(node) == << [x |-> node.x, y |-> node.y] >>

\* the nodes from the start to node, following the parent links
reconstructPath(node) ==
  (IF node.parent = << >> THEN << >> ELSE reconstructPath(node.parent[1]))
    \o << [x |-> node.x, y |-> node.y] >>

RECURSIVE lowestF(_, _, _)
RECURSIVE lowestFLast(_, _, _)
\* index of the last node of open with the lowest f
lowestFLast(open, currentIndex, i) ==
  IF i > Len(open) THEN currentIndex
  ELSE lowestFLast(open, IF getF(open[i]) <= getF(open[currentIndex]) THEN i ELSE currentIndex, i + 1)

\* index of the first node of open with the lowest f
lowestF(open, currentIndex, i) ==
  IF i > Len(open) THEN currentIndex
  ELSE lowestF(open, IF getF(open[i]) < getF(open[currentIndex]) THEN i ELSE currentIndex, i + 1)

\* the selected node stays in the open set
keepAt(s, i) == s

RemoveAt(s, i) == SubSeq(s, 1, i - 1) \o SubSeq(s, i + 1, Len(s))

\* openSet.find((n) => n.id === id): << >> or the first match
FindOpen(open, id) ==
  LET hits == { i \in 1..Len(open) : open[i].id = id }
  IN IF hits = {} THEN << >>
     ELSE << open[CHOOSE i \in hits : \A j \in hits : i <= j] >>

\* a candidate is kept only for a node that is not in the open set yet
KeepNeighborIfNew(existingOpen, neighbor) == existingOpen = << >>

\* a worse or equal candidate for a node already in the open set is dropped
KeepNeighbor(existingOpen, neighbor) ==
  ~ (existingOpen # << >> /\ existingOpen[1].g <= neighbor.g)

\* an edge is followed only from its from end
leaves(edge, id) == edge.from = id

\* the filter of the neighbours: the edge has id at either end
touches(edge, id) == edge.from = id \/ edge.to = id

RECURSIVE expandEdges(_, _, _, _, _, _)
\* the for loop over the edges at current
expandEdges(gr, goal, closed, current, open, i) ==
  IF i > Len(gr.edges) THEN open
  ELSE LET edge == gr.edges[i]
       IN IF ~ touches(edge, current.id)
          THEN expandEdges(gr, goal, closed, current, open, i + 1)
          ELSE LET neighborId == IF edge.from = current.id THEN edge.to ELSE edge.from
               IN IF neighborId \in closed \/ neighborId \notin DOMAIN gr.nodes
                  THEN expandEdges(gr, goal, closed, current, open, i + 1)
                  ELSE LET n0 == NewNode(neighborId, gr.nodes[neighborId].x, gr.nodes[neighborId].y)
                           g == current.g + heuristic(current, n0)
                           h == heuristic(n0, goal)
                           neighbor == [n0 EXCEPT !.parent = << current >>, !.g = g, !.h = h, !.f = g + h]
                       IN IF KeepNeighbor(FindOpen(open, neighborId), neighbor)
                          THEN expandEdges(gr, goal, closed, current, Append(open, neighbor), i + 1)
                          ELSE expandEdges(gr, goal, closed, current, open, i + 1)

NullResult == [isNull |-> TRUE, path |-> << >>]

\* the path to the node expanded last
PartialResult(current) == [isNull |-> FALSE, path |-> reconstructPath(current)]

\* return null, after the loop has emptied the open set
NoPathResult(current) == NullResult

\* one iteration of the while loop of aStar on the search state st
aStarIterate(gr, gId, st) ==
  LET currentIndex == lowestF(st.openSet, 1, 2)
      current == st.openSet[currentIndex]
      goal == NewNode(gId, gr.nodes[gId].x, gr.nodes[gId].y)
      closed == st.closedSet \cup {current.id}
  IN IF current.id = gId
     THEN [st EXCEPT !.pc = "done", !.result = [isNull |-> FALSE, path |-> reconstructPath(current)]]
     ELSE LET open == expandEdges(gr, goal, closed, current, RemoveAt(st.openSet, currentIndex), 1)
          IN [openSet |-> open, closedSet |-> closed,
              pc |-> IF Len(open) > 0 THEN "loop" ELSE "done",
              result |-> IF Len(open) > 0 THEN NullResult ELSE NoPathResult(current)]

\* the state of aStar when it enters the while loop
aStarEnter(gr, sId, gId) ==
  IF sId \notin DOMAIN gr.nodes \/ gId \notin DOMAIN gr.nodes
  THEN [openSet |-> << >>, closedSet |-> {}, pc |-> "done", result |-> NullResult]
  ELSE [openSet |-> << NewNode(sId, gr.nodes[sId].x, gr.nodes[sId].y) >>,
        closedSet |-> {}, pc |-> "loop", result |-> NullResult]

RECURSIVE aStarRun(_, _, _)
aStarRun(gr, gId, st) ==
  IF st.pc = "done" THEN st.result ELSE aStarRun(gr, gId, aStarIterate(gr, gId, st))

\* aStar(graph, startId, goalId)
aStar(gr, sId, gId) == aStarRun(gr, gId, aStarEnter(gr, sId, gId))

\* ------------------------------------------------------------ route layer
\* what a route request gives its caller: a route, or a thrown Error
NoOutcome == [kind |-> "none", error |-> "", path |-> << >>, distance |-> 0, steps |-> 0]

Thrown(message) == [kind |-> "throw", error |-> message, path |-> << >>, distance |-> 0, steps |-> 0]

RECURSIVE totalDistance(_, _)
\* the number of waypoints instead of the summed leg lengths
waypointCount(pts, i) == Len(pts)

\* the summed length of the legs of pts from waypoint i on
totalDistance(pts, i) ==
  IF i >= Len(pts) THEN 0
  ELSE Sqrt((pts[i + 1].x - pts[i].x) * (pts[i + 1].x - pts[i].x)
            + (pts[i + 1].y - pts[i].y) * (pts[i + 1].y - pts[i].y)) + totalDistance(pts, i + 1)

\* DatabaseService.calculateRoute(sourceId, destinationId)
dbCalculateRoute(locs, conns, sourceId, destinationId) ==
  IF sourceId \notin DOMAIN locs \/ destinationId \notin DOMAIN locs
  THEN Thrown("Source or destination location not found")
  ELSE LET found == aStar(createGraph(locs, conns), sourceId, destinationId)
       IN IF found.isNull
          THEN Thrown("No path found between locations")
          ELSE [kind |-> "route", error |-> "", path |-> found.path,
                distance |-> totalDistance(found.path, 1), steps |-> Len(found.path)]

\* the catch block of apiService.calculateRoute: a straight line between the
\* two locations when both can be looked up, otherwise an Error
routeFallback(locs, sourceId, destinationId) ==
  IF sourceId \in DOMAIN locs /\ destinationId \in DOMAIN locs
  THEN LET pts == << locs[sourceId], locs[destinationId] >>
       IN [kind |-> "route", error |-> "", path |-> pts,
           distance |-> totalDistance(pts, 1), steps |-> 2]
  ELSE Thrown("Failed to calculate route")

\* what apiService.calculateRoute does with the outcome of the database call
routeAfterDb(locs, sourceId, destinationId, fromDb) ==
  IF fromDb.kind = "throw" THEN routeFallback(locs, sourceId, destinationId) ELSE fromDb

CacheKey(sourceId, destinationId) == << sourceId, destinationId >>

Cached(key) == { c \in routeCache : c.key = key }

\* ---------------------------------------------------------------- tracker
\* Positions are metre offsets along one meridian from a reference point:
\* latitude is the northing in metres, longitude is 0 for every point.  Over
\* such offsets the great-circle distance is the difference of the northings
\* and the bearing is 0 (north, also for a zero displacement) or 180 (south).
Waypoint(lat) == [latitude |-> lat, longitude |-> 0]

Routes == { << >>,
            << Waypoint(30) >>,
            << Waypoint(0), Waypoint(30), Waypoint(36), Waypoint(60) >> }

Northings == {5, 6, 21, 23, 26}
\* accuracy radius reported with a fix (an absent accuracy field is written 0:
\* it is as falsy as 0 in current.accuracy || 5)
Accuracies == {2, 20}
\* heading readings: trueHeading (-1 when unavailable) and magHeading
HeadingReadings == { [trueHeading |-> 0, magHeading |-> 10],
                     [trueHeading |-> -1, magHeading |-> 350] }

\* LocationService.watchId: null, or the subscription of the platform watch
\* created by the startWatching call of that number
NoWatch == 0

\* the startWatching calls, in the order they are made; each passes a
\* callback of its own (startGPSTracking builds a new closure per call)
WatchCalls == 1..MaxWatchCalls

\* a subscription field: null, or the subscription of a registered watch.
\* posWatches and headWatches count the watches registered with the platform
\* whose callback is handleLocationUpdate / handleHeadingUpdate.
NoSubscription == "null"
Subscribed == "subscription"

NoWaypoint == << >>

\* the field initialiser of currentState
InitialState ==
  [currentLocation |-> [latitude |-> 0, longitude |-> 0, accuracy |-> 0],
   heading |-> 0, nextWaypoint |-> NoWaypoint, distanceToNext |-> 0, bearingToNext |-> 0,
   relativeBearing |-> 0, currentStepIndex |-> 0, totalSteps |-> 0, isArrived |-> FALSE]

calculateGPSDistance(lat1, lon1, lat2, lon2) ==
  Sqrt((lat2 - lat1) * (lat2 - lat1) + (lon2 - lon1) * (lon2 - lon1))

\* the bearing in whole degrees, 0..359: 0 or 180 along the meridian (0 for
\* a zero displacement, atan2(0, 0)), otherwise the last whole degree of the
\* quadrant of the displacement that is not clockwise of it
calculateGPSBearing(lat1, lon1, lat2, lon2) ==
  LET north == lat2 - lat1
      east == lon2 - lon1
      lo == IF east > 0 THEN (IF north > 0 THEN 0 ELSE 90) ELSE (IF north < 0 THEN 180 ELSE 270)
      upTo == { d \in lo..(lo + 89) : east * Cos1000(d) - north * Sin1000(d) >= 0 }
  IN IF east = 0 THEN (IF north < 0 THEN 180 ELSE 0)
     ELSE CHOOSE d \in upTo : \A o \in upTo : o <= d

RECURSIVE WrapDown(_)
WrapDown(rel) == IF rel > 180 THEN WrapDown(rel - 360) ELSE rel

RECURSIVE WrapUp(_)
WrapUp(rel) == IF rel < -180 THEN WrapUp(rel + 360) ELSE rel

\* current.accuracy || 5
GpsAccuracy(current) == IF current.accuracy = 0 THEN DefaultAccuracy ELSE current.accuracy

\* the threshold without the accuracy term
fixedThreshold(gpsAccuracy) == BaseThreshold

dynamicThreshold(gpsAccuracy) ==
  IF BaseThreshold >= gpsAccuracy + AccuracyBuffer THEN BaseThreshold ELSE gpsAccuracy + AccuracyBuffer

\* the intermediate threshold used for the final waypoint too
ThresholdNoFinal(isFinal, gpsAccuracy) == dynamicThreshold(gpsAccuracy)

\* the threshold the distance to the active waypoint is compared with
Threshold(isFinal, gpsAccuracy) == IF isFinal THEN FinalThreshold ELSE dynamicThreshold(gpsAccuracy)

\* the callback is never called
notifyNobody(callback, n) == n

\* notifyUpdate: one snapshot more when a callback is registered
notifyUpdate(callback, n) == IF callback THEN n + 1 ELSE n

\* the arrival flag is left as it was
arrivalKept(wasArrived, distance) == wasArrived

\* the arrival flag after a reading at distance from the final waypoint
ArrivedAfter(wasArrived, distance) == IF distance < ArrivalCheck THEN TRUE ELSE wasArrived

\* every route counts as loaded, the empty one too
anyRoute(p) == TRUE

\* the negation of !this.path || this.path.length === 0
hasRoute(p) == Len(p) # 0

RECURSIVE updateNavigationLogic(_, _, _, _, _)
\* the index moves on and the snapshot keeps the values of the waypoint passed
advanceWithoutRecompute(p, idx, cs, callback, n) ==
  [currentStepIndex |-> idx + 1, currentState |-> cs, emitted |-> notifyUpdate(callback, n)]

\* currentStepIndex++ and the immediate updateNavigationLogic() for the new
\* target
advanceWaypoint(p, idx, cs, callback, n) == updateNavigationLogic(p, idx + 1, cs, callback, n)

\* updateNavigationLogic on the route p, index idx and state cs; n counts the
\* snapshots handed to the callback
updateNavigationLogic(p, idx, cs, callback, n) ==
  IF ~ hasRoute(p) THEN [currentStepIndex |-> idx, currentState |-> cs, emitted |-> n]
  ELSE IF idx >= Len(p)
  THEN [currentStepIndex |-> idx, currentState |-> [cs EXCEPT !.isArrived = TRUE],
        emitted |-> notifyUpdate(callback, n)]
  ELSE LET current == cs.currentLocation
           target == p[idx + 1]
           distance == calculateGPSDistance(current.latitude, current.longitude,
                                            target.latitude, target.longitude)
           bearing == calculateGPSBearing(current.latitude, current.longitude,
                                          target.latitude, target.longitude)
           cs1 == [cs EXCEPT !.nextWaypoint = << target >>, !.distanceToNext = distance,
                             !.bearingToNext = bearing, !.totalSteps = Len(p),
                             !.currentStepIndex = idx,
                             !.relativeBearing = WrapUp(WrapDown(bearing - cs.heading))]
           isFinal == idx = Len(p) - 1
           threshold == Threshold(isFinal, GpsAccuracy(current))
       IN IF distance < threshold
          THEN IF isFinal
               THEN [currentStepIndex |-> idx,
                     currentState |-> [cs1 EXCEPT !.isArrived = ArrivedAfter(cs1.isArrived, distance)],
                     emitted |-> notifyUpdate(callback, n)]
               ELSE advanceWaypoint(p, idx, cs1, callback, n)
          ELSE [currentStepIndex |-> idx, currentState |-> cs1, emitted |-> notifyUpdate(callback, n)]

\* the index without the correction for short routes
StartIndexAlwaysOne(p) == 1

\* the index startNavigation selects for a route
StartIndex(p) == IF Len(p) < 2 THEN 0 ELSE 1

\* handleLocationUpdate: a new currentLocation object, then the navigation
\* logic
handleLocationUpdate(p, idx, cs, callback, coords) ==
  updateNavigationLogic(p, idx, [cs EXCEPT !.currentLocation = coords], callback, 0)

\* handleHeadingUpdate: trueHeading when available, else magHeading, then the
\* navigation logic
handleHeadingUpdate(p, idx, cs, callback, headingData) ==
  updateNavigationLogic(p, idx,
                        [cs EXCEPT !.heading = IF headingData.trueHeading >= 0
                                               THEN headingData.trueHeading
                                               ELSE headingData.magHeading],
                        callback, 0)

\* skipToNextWaypoint
skipToNextWaypoint(p, idx, cs, callback) ==
  IF ~ hasRoute(p) THEN [currentStepIndex |-> idx, currentState |-> cs, emitted |-> 0]
  ELSE IF idx < Len(p) - 1 THEN updateNavigationLogic(p, idx + 1, cs, callback, 0)
  ELSE [currentStepIndex |-> idx, currentState |-> [cs EXCEPT !.isArrived = TRUE],
        emitted |-> notifyUpdate(callback, 0)]

\* ------------------------------------------------------ position estimator
\* ARCoreService in fixed point: positions in millimetres, velocities in
\* mm/s, accelerations in mm/s^2, times in milliseconds, latitudes and
\* longitudes in 1/100000 degree, headings in 1/625 degree (four smoothing
\* steps by 0.2 on whole-degree readings are exact).  Math.sin and Math.cos
\* are taken of the whole degrees of the heading, in thousandths.
HeadingScale == 5 * 5 * 5 * 5

FullCircle == 360 * HeadingScale

HalfCircle == 180 * HeadingScale

\* MOTION_CONFIG and the literals of the handlers
VelocityDecayPercent == 95
StepSizeMm == 500
MovementThreshold == 150
HeadingSmoothingDivisor == 5
StepThreshold == 1500
MinStepInterval == 300
MaxVelocity == 2000
MetersPerDegLat == 111320
GpsIgnoreAccuracy == 15
GpsGoodAccuracy == 5
GoodGpsWeight == 8
FairGpsWeight == 5

\* Date.now() advances in steps of half the minimum step interval
Tick == MinStepInterval \div 2

\* Date.now() when the service object is constructed
ClockStart == 10 * Tick

NoAnchor == << >>

\* the device motion samples: rotation.alpha in whole degrees, acceleration
\* with gravity removed; a sample without acceleration or rotation is dropped
MotionSamples ==
  { [hasData |-> TRUE, acceleration |-> [x |-> 0, y |-> 0, z |-> 0], alpha |-> 350],
    [hasData |-> TRUE, acceleration |-> [x |-> 0, y |-> 2000, z |-> 0], alpha |-> 10],
    [hasData |-> TRUE, acceleration |-> [x |-> 300, y |-> 400, z |-> 0], alpha |-> 190],
    [hasData |-> FALSE, acceleration |-> [x |-> 0, y |-> 0, z |-> 0], alpha |-> 0] }

\* the calibration point setStartingPosition is called with (60 degrees north)
Anchors == { [latitude |-> 6000000, longitude |-> 1000000, x |-> 10000, y |-> 5000] }

\* the fixes of the position watch: coordinates, accuracy in metres, and the
\* time between the measurement and its delivery
GpsFixes ==
  { [latitude |-> 6000009, longitude |-> 1000000, accuracy |-> 3, age |-> 0],
    [latitude |-> 6000009, longitude |-> 1000000, accuracy |-> 5, age |-> Tick],
    [latitude |-> 6000000, longitude |-> 1000010, accuracy |-> 15, age |-> 0],
    [latitude |-> 6000009, longitude |-> 1000010, accuracy |-> 20, age |-> Tick] }

\* (Math.random() - 0.5) * 0.1 metres on each axis
RandomMoves == { [dx |-> -50, dy |-> 49], [dx |-> 49, dy |-> -50] }

\* the smoothing step taken across the raw difference without wrapping it
rawHeadingDiff(diff) == diff

\* the difference rawHeading - heading brought to the shorter arc
wrapHeadingDiff(diff) ==
  LET d1 == IF diff > HalfCircle THEN diff - FullCircle ELSE diff
  IN IF d1 < 0 - HalfCircle THEN d1 + FullCircle ELSE d1

\* updateHeadingFromRotation: the heading after the reading alpha
updateHeadingFromRotation(h, alpha) ==
  LET headingDiff == wrapHeadingDiff(alpha * HeadingScale - h)
  IN ((h + headingDiff \div HeadingSmoothingDivisor) + FullCircle) % FullCircle

\* a step is counted on every strong sample, whatever the time since the last
stepWithoutDebounce(accelMagnitude, timeSinceLastStep) == accelMagnitude > StepThreshold

\* the test of detectStep
isStep(accelMagnitude, timeSinceLastStep) ==
  accelMagnitude > StepThreshold /\ timeSinceLastStep > MinStepInterval

\* detectStep: the step detector and the position after a sample
detectStep(sd, pos, h, accelMagnitude, currentTime) ==
  IF isStep(accelMagnitude, currentTime - sd.lastStepTime)
  THEN [stepDetector |-> [sd EXCEPT !.stepCount = sd.stepCount + 1, !.lastStepTime = currentTime],
        currentPosition |-> [x |-> pos.x + (Sin1000(h \div HeadingScale) * StepSizeMm) \div 1000,
                             y |-> pos.y + (Cos1000(h \div HeadingScale) * StepSizeMm) \div 1000]]
  ELSE [stepDetector |-> sd, currentPosition |-> pos]

\* updatePositionFromAcceleration: the velocity after integrating accel over
\* deltaTime milliseconds, limited to the maximum velocity
updatePositionFromAcceleration(vel, h, accel, deltaTime) ==
  LET cos == Cos1000(h \div HeadingScale)
      sin == Sin1000(h \div HeadingScale)
      worldAccelX == (accel.x * cos - accel.y * sin) \div 1000
      worldAccelY == (accel.x * sin + accel.y * cos) \div 1000
      vx == vel.x + (worldAccelX * deltaTime) \div 1000
      vy == vel.y + (worldAccelY * deltaTime) \div 1000
      velocityMag == Sqrt(vx * vx + vy * vy)
  IN IF velocityMag > MaxVelocity
     THEN [x |-> (vx * MaxVelocity) \div velocityMag, y |-> (vy * MaxVelocity) \div velocityMag]
     ELSE [x |-> vx, y |-> vy]

\* location.coords.accuracy < 5 ? 0.8 : 0.5, in tenths
gpsWeight(accuracy) == IF accuracy < GpsGoodAccuracy THEN GoodGpsWeight ELSE FairGpsWeight

\* the fix in map coordinates: the anchor's map position plus the offset of
\* the fix from the anchor in millimetres
gpsMapPosition(anchor, fix) ==
  LET latDiff == fix.latitude - anchor.latitude
      lonDiff == fix.longitude - anchor.longitude
      offsetX == (lonDiff * (MetersPerDegLat \div 10) * Cos1000(anchor.latitude \div 100000)) \div 10000
      offsetY == (latDiff * (MetersPerDegLat \div 10)) \div 10
  IN [x |-> anchor.x + offsetX, y |-> anchor.y + offsetY]

\* fuseGPSData: the position after the fix
fuseGPSData(anchor, pos, fix) ==
  IF anchor = NoAnchor THEN pos
  ELSE IF fix.accuracy < GpsIgnoreAccuracy
  THEN LET gps == gpsMapPosition(anchor[1], fix)
           w == gpsWeight(fix.accuracy)
       IN [x |-> (pos.x * (10 - w) + gps.x * w) \div 10,
           y |-> (pos.y * (10 - w) + gps.y * w) \div 10]
  ELSE pos

\* every callback is called, calibrated or not
notifyUncalibrated(anchor, cbs) == Cardinality(cbs)

\* notifyPositionUpdate: the number of callbacks called
notifyPositionUpdate(anchor, cbs) == IF anchor = NoAnchor THEN 0 ELSE Cardinality(cbs)

\* getCurrentPosition(): null (<< >>) or the position
getCurrentPosition(anchor, pos, h) ==
  IF anchor = NoAnchor THEN << >>
  ELSE << [x |-> pos.x, y |-> pos.y, heading |-> h, accuracy |-> 1,
           latitude |-> anchor[1].latitude, longitude |-> anchor[1].longitude] >>

\* processMotionData on a sample with acceleration and rotation, at Date.now()
\* = currentTime: heading, step detector, velocity and position after it
processMotionData(st, data, currentTime) ==
  LET deltaTime == currentTime - st.lastUpdateTime
      accel == data.acceleration
      accelMag == Sqrt(accel.x * accel.x + accel.y * accel.y + accel.z * accel.z)
      h == updateHeadingFromRotation(st.heading, data.alpha)
      moving == accelMag > MovementThreshold
      stepped == detectStep(st.stepDetector, st.currentPosition, h, accelMag, currentTime)
      vel == IF moving THEN updatePositionFromAcceleration(st.velocity, h, accel, deltaTime)
             ELSE [x |-> (st.velocity.x * VelocityDecayPercent) \div 100,
                   y |-> (st.velocity.y * VelocityDecayPercent) \div 100]
      pos == IF moving THEN stepped.currentPosition ELSE st.currentPosition
  IN [heading |-> h,
      stepDetector |-> IF moving THEN stepped.stepDetector ELSE st.stepDetector,
      velocity |-> vel,
      currentPosition |-> [x |-> pos.x + (vel.x * deltaTime) \div 1000,
                           y |-> pos.y + (vel.y * deltaTime) \div 1000],
      lastUpdateTime |-> currentTime]

\* the field initialisers of the position tracking state
EstimatorFields ==
  /\ currentPosition = [x |-> 0, y |-> 0]
  /\ velocity = [x |-> 0, y |-> 0]
  /\ heading = 0
  /\ lastUpdateTime = ClockStart
  /\ startingGPS = NoAnchor
  /\ stepDetector = [lastStepTime |-> 0, stepCount |-> 0]
  /\ clock = ClockStart
  /\ samples = 0
  /\ notified = 0
  /\ fixTimestamp = 0

\* the service object as constructed
EstimatorInit ==
  /\ isInitialized = FALSE /\ isTracking = FALSE
  /\ callbacks = {}
  /\ motionSubscription = NoSubscription /\ gpsSubscription = NoSubscription
  /\ motionListeners = 0 /\ gpsWatches = 0 /\ testIntervals = 0
  /\ arPc = "none"
  /\ EstimatorFields

\* the hybrid service object as constructed
HybridInit ==
  /\ hybridIsTracking = FALSE /\ hybridCallbacks = {}
  /\ hybridPc = "none" /\ hybridSessions = 0

\* nothing recorded yet; the only location object is the one of the field
\* initialiser of currentState
RecorderInit == observed = << >> /\ locationObjects = << InitialState.currentLocation >>

\* generatePathInstructions has not been called
InstructionIdle ==
  instructionInput = << >> /\ instructions = << >> /\ instructionPc = "idle"

\* no AStar object of the backend exists
BackendIdle ==
  /\ backendLocations = << >> /\ backendStart = "" /\ backendGoal = ""
  /\ backendOpen = << >> /\ backendClosed = {}
  /\ cameFrom = << >> /\ gScore = << >> /\ fScore = << >>
  /\ backendPc = "idle" /\ backendResult = << >>

\* the screen before any arrival
ScreenIdle == arrivals = 0

\* the LocationService object as constructed, and the initial reducer state
WatchIdle ==
  /\ watchId = NoWatch /\ locationCallbacks = {} /\ isWatching = FALSE
  /\ lastKnownPosition = << >> /\ platformWatches = {}
  /\ watchPc = [c \in WatchCalls |-> "idle"]
  /\ watchStarts = 0 /\ watchFixes = 0 /\ delivered = {}
  /\ isNavigating = FALSE

PeripheralInit == InstructionIdle /\ BackendIdle /\ ScreenIdle /\ WatchIdle

graph == createGraph(locations, connections)

\* the route layer before any request
RouteIdle ==
  /\ routeCache = {}
  /\ routeRequest = << >>
  /\ dbOutcome = NoOutcome
  /\ routeOutcome = NoOutcome

\* the planner before any request
PlannerIdle ==
  /\ locations = Layout1 /\ connections = << >>
  /\ startId = UnknownId /\ goalId = UnknownId
  /\ openSet = << >> /\ closedSet = {} /\ aPc = "done" /\ aResult = NullResult
  /\ RouteIdle

\* the tracker object as constructed
TrackerInit ==
  /\ path = << >>
  /\ currentStepIndex = 0
  /\ currentState = InitialState
  /\ updateCallback = FALSE
  /\ locationSubscription = NoSubscription
  /\ headingSubscription = NoSubscription
  /\ posWatches = 0 /\ headWatches = 0
  /\ trackingPc = "none"
  /\ sessions = 0
  /\ emitted = 0
  /\ stopped = FALSE

PlannerInit ==
  /\ locations \in Layouts
  /\ connections \in ConnectionLists
  /\ startId \in Ids \cup {UnknownId}
  /\ goalId \in Ids \cup {UnknownId}
  /\ LET st == aStarEnter(createGraph(locations, connections), startId, goalId)
     IN /\ openSet = st.openSet
        /\ closedSet = st.closedSet
        /\ aPc = st.pc
        /\ aResult = st.result
  /\ RouteIdle
  /\ TrackerInit
  /\ EstimatorInit
  /\ HybridInit /\ RecorderInit /\ PeripheralInit

\* one pass through the body of while (openSet.length > 0)
AStarLoop ==
  /\ aPc = "loop"
  /\ LET st == aStarIterate(graph, goalId,
                            [openSet |-> openSet, closedSet |-> closedSet, pc |-> aPc, result |-> aResult])
     IN /\ openSet' = st.openSet
        /\ closedSet' = st.closedSet
        /\ aPc' = st.pc
        /\ aResult' = st.result
  /\ UNCHANGED << locations, connections, startId, goalId >>
  /\ UNCHANGED routeVars
  /\ UNCHANGED trackerVars
  /\ UNCHANGED << estimatorVars, hybridVars, recorderVars, peripheralVars >>

PlannerNext == AStarLoop

SpecPlanner == PlannerInit /\ [][PlannerNext]_vars

\* ------------------------------------------------- planner: reference values
Infinity == 1000

Min2(a, b) == IF a <= b THEN a ELSE b

RECURSIVE relax(_, _, _)
\* Bellman-Ford: d after k more rounds of relaxing every edge in both directions
relax(gr, d, k) ==
  IF k = 0 THEN d
  ELSE relax(gr,
             [n \in DOMAIN gr.nodes |->
                LET via == { d[IF e.from = n THEN e.to ELSE e.from] + e.distance :
                               e \in { gr.edges[i] : i \in { j \in 1..Len(gr.edges) :
                                          gr.edges[j].from = n \/ gr.edges[j].to = n } } }
                IN IF via = {} THEN d[n]
                   ELSE Min2(d[n], CHOOSE m \in via : \A o \in via : m <= o)],
             k - 1)

\* the least total weight of a path of gr from s to t (Infinity: there is none)
MinCost(gr, s, t) ==
  relax(gr, [n \in DOMAIN gr.nodes |-> IF n = s THEN 0 ELSE Infinity], Cardinality(DOMAIN gr.nodes))[t]

\* the weight of the edge of gr that joins the waypoints p and q
EdgeWeight(gr, p, q) ==
  LET at(id, w) == gr.nodes[id].x = w.x /\ gr.nodes[id].y = w.y
      ws == { gr.edges[i].distance : i \in { j \in 1..Len(gr.edges) :
                \/ at(gr.edges[j].from, p) /\ at(gr.edges[j].to, q)
                \/ at(gr.edges[j].from, q) /\ at(gr.edges[j].to, p) } }
  IN IF ws = {} THEN Infinity ELSE CHOOSE m \in ws : \A o \in ws : m <= o

RECURSIVE PathCost(_, _, _)
PathCost(gr, pts, i) ==
  IF i >= Len(pts) THEN 0 ELSE EdgeWeight(gr, pts[i], pts[i + 1]) + PathCost(gr, pts, i + 1)

PositiveWeights(gr) == \A i \in 1..Len(gr.edges) : gr.edges[i].distance > 0

Connected(gr, s, t) ==
  s \in DOMAIN gr.nodes /\ t \in DOMAIN gr.nodes /\ MinCost(gr, s, t) < Infinity

\* ------------------------------------------------------ route operations
RouteEndpoints == {"A", "E", UnknownId}

RouteInit ==
  /\ locations \in Layouts
  /\ connections \in { c \in ConnectionLists : Len(c) <= MaxRouteConns }
  /\ startId = UnknownId /\ goalId = UnknownId
  /\ openSet = << >> /\ closedSet = {} /\ aPc = "done" /\ aResult = NullResult
  /\ RouteIdle
  /\ TrackerInit
  /\ EstimatorInit
  /\ HybridInit /\ RecorderInit /\ PeripheralInit

\* apiService.calculateRoute(sourceId, destinationId): a cached route is
\* returned as it is; otherwise the database computes the route, which is
\* cached, and a throw of the database call is caught by the fallback
CalculateRoute(sourceId, destinationId) ==
  LET key == CacheKey(sourceId, destinationId)
  IN /\ routeRequest' = key
     /\ IF Cached(key) # {}
        THEN /\ routeOutcome' = (CHOOSE c \in Cached(key) : TRUE).route
             /\ UNCHANGED << routeCache, dbOutcome >>
        ELSE LET fromDb == dbCalculateRoute(locations, connections, sourceId, destinationId)
             IN /\ dbOutcome' = fromDb
                /\ routeOutcome' = routeAfterDb(locations, sourceId, destinationId, fromDb)
                /\ routeCache' = IF fromDb.kind = "route"
                                 THEN routeCache \cup {[key |-> key, route |-> fromDb]}
                                 ELSE routeCache
                /\ fromDb.kind = "route" => Cardinality(routeCache) < MaxCached
     /\ UNCHANGED aStarVars
     /\ UNCHANGED trackerVars
     /\ UNCHANGED << estimatorVars, hybridVars, recorderVars, peripheralVars >>

\* a cached route is older than CACHE_DURATION: getCachedData ignores it and
\* the next request overwrites it
CacheExpires(key) ==
  /\ Cached(key) # {}
  /\ routeCache' = routeCache \ Cached(key)
  /\ UNCHANGED << routeRequest, dbOutcome, routeOutcome >>
  /\ UNCHANGED aStarVars
  /\ UNCHANGED trackerVars
  /\ UNCHANGED << estimatorVars, hybridVars, recorderVars, peripheralVars >>

RouteNext ==
  \/ \E sourceId \in RouteEndpoints, destinationId \in RouteEndpoints :
       CalculateRoute(sourceId, destinationId)
  \/ \E sourceId \in RouteEndpoints, destinationId \in RouteEndpoints :
       CacheExpires(CacheKey(sourceId, destinationId))

SpecRoute == RouteInit /\ [][RouteNext]_vars

\* -------------------------------------------------------------- route claims
\* the waypoint list pts is a path of the location graph from s to t
IsGraphPath(pts, s, t) ==
  /\ Len(pts) >= 1
  /\ pts[1] = locations[s] /\ pts[Len(pts)] = locations[t]
  /\ \A i \in 1..(Len(pts) - 1) : EdgeWeight(graph, pts[i], pts[i + 1]) < Infinity

RequestMade == routeRequest # << >>

\* C9: calculateRoute never hands its caller a waypoint list that is not a
\* path of the location graph; when the planner finds no path between two
\* existing locations the caller gets the NotFound outcome.
C9_NotFoundReported ==
  (RequestMade /\ routeOutcome.kind = "route")
    => IsGraphPath(routeOutcome.path, routeRequest[1], routeRequest[2])

\* C10: a path request that names an identifier absent from the node mapping
\* returns normally and raises no exception.
C10_AbsentIdNoException ==
  (RequestMade /\ (routeRequest[1] \notin DOMAIN locations \/ routeRequest[2] \notin DOMAIN locations)
     /\ Cached(routeRequest) = {})
    => dbOutcome.kind # "throw"

\* ------------------------------------------------------- tracker operations
Init == PlannerIdle /\ TrackerInit /\ EstimatorInit /\ HybridInit /\ RecorderInit /\ PeripheralInit

\* startNavigation(path)
StartNavigation(route) ==
  /\ path' = route
  /\ currentStepIndex' = StartIndex(route)
  /\ emitted' = 0
  /\ UNCHANGED << currentState, updateCallback, locationSubscription, headingSubscription,
                  posWatches, headWatches, trackingPc, sessions, stopped >>
  /\ UNCHANGED plannerVars
  /\ UNCHANGED << estimatorVars, hybridVars, recorderVars, peripheralVars >>

\* startTracking(callback) up to its first await (the permission request)
StartTracking ==
  /\ trackingPc = "none"
  /\ sessions < MaxSessions
  /\ sessions' = sessions + 1
  /\ updateCallback' = TRUE
  /\ trackingPc' = "permission"
  /\ stopped' = FALSE
  /\ emitted' = 0
  /\ UNCHANGED << path, currentStepIndex, currentState, locationSubscription,
                  headingSubscription, posWatches, headWatches >>
  /\ UNCHANGED plannerVars
  /\ UNCHANGED << estimatorVars, hybridVars, recorderVars, peripheralVars >>

\* the permission request resolves: denied throws; granted calls
\* watchPositionAsync and awaits it
PermissionResolved(granted) ==
  /\ trackingPc = "permission"
  /\ trackingPc' = IF granted THEN "position" ELSE "none"
  /\ emitted' = 0
  /\ UNCHANGED << path, currentStepIndex, currentState, updateCallback, locationSubscription,
                  headingSubscription, posWatches, headWatches, sessions, stopped >>
  /\ UNCHANGED plannerVars
  /\ UNCHANGED << estimatorVars, hybridVars, recorderVars, peripheralVars >>

\* watchPositionAsync resolves: the position watch is registered and its
\* subscription is stored; watchHeadingAsync is called and awaited
PositionWatchResolved ==
  /\ trackingPc = "position"
  /\ posWatches' = posWatches + 1
  /\ locationSubscription' = Subscribed
  /\ trackingPc' = "heading"
  /\ emitted' = 0
  /\ UNCHANGED << path, currentStepIndex, currentState, updateCallback,
                  headingSubscription, headWatches, sessions, stopped >>
  /\ UNCHANGED plannerVars
  /\ UNCHANGED << estimatorVars, hybridVars, recorderVars, peripheralVars >>

\* watchHeadingAsync resolves: the heading watch is registered and its
\* subscription is stored; startTracking returns
HeadingWatchResolved ==
  /\ trackingPc = "heading"
  /\ headWatches' = headWatches + 1
  /\ headingSubscription' = Subscribed
  /\ trackingPc' = "none"
  /\ emitted' = 0
  /\ UNCHANGED << path, currentStepIndex, currentState, updateCallback,
                  locationSubscription, posWatches, sessions, stopped >>
  /\ UNCHANGED plannerVars
  /\ UNCHANGED << estimatorVars, hybridVars, recorderVars, peripheralVars >>

\* remove() is called whether or not a subscription is stored
removeUnguarded(watches, sub) == watches - 1

\* the number of registered watches left when stopTracking has treated the
\* subscription field sub: a stored subscription is removed, null is skipped
RemoveWatch(watches, sub) == IF sub # NoSubscription THEN watches - 1 ELSE watches

\* the subscription fields of the tracker and the watches registered
GeoTracking ==
  [locationSubscription |-> locationSubscription, headingSubscription |-> headingSubscription,
   posWatches |-> posWatches, headWatches |-> headWatches]

\* stopTracking() on the subscription fields t
stopTracking(t) ==
  [locationSubscription |-> NoSubscription, headingSubscription |-> NoSubscription,
   posWatches |-> RemoveWatch(t.posWatches, t.locationSubscription),
   headWatches |-> RemoveWatch(t.headWatches, t.headingSubscription)]

\* stopTracking()
StopTracking ==
  /\ LET t == stopTracking(GeoTracking)
     IN /\ posWatches' = t.posWatches
        /\ headWatches' = t.headWatches
        /\ locationSubscription' = t.locationSubscription
        /\ headingSubscription' = t.headingSubscription
  /\ stopped' = TRUE
  /\ emitted' = 0
  /\ UNCHANGED << path, currentStepIndex, currentState, updateCallback, trackingPc, sessions >>
  /\ UNCHANGED plannerVars
  /\ UNCHANGED << estimatorVars, hybridVars, recorderVars, peripheralVars >>

\* handleLocationUpdate(location), called by a registered position watch
LocationUpdate(lat, acc) ==
  /\ posWatches > 0
  /\ LET r == handleLocationUpdate(path, currentStepIndex, currentState, updateCallback,
                                   [latitude |-> lat, longitude |-> 0, accuracy |-> acc])
     IN /\ currentStepIndex' = r.currentStepIndex
        /\ currentState' = r.currentState
        /\ emitted' = r.emitted
  /\ UNCHANGED << path, updateCallback, locationSubscription, headingSubscription,
                  posWatches, headWatches, trackingPc, sessions, stopped >>
  /\ UNCHANGED plannerVars
  /\ UNCHANGED << estimatorVars, hybridVars, recorderVars, peripheralVars >>

\* handleHeadingUpdate(headingData), called by a registered heading watch
HeadingUpdate(headingData) ==
  /\ headWatches > 0
  /\ LET r == handleHeadingUpdate(path, currentStepIndex, currentState, updateCallback, headingData)
     IN /\ currentStepIndex' = r.currentStepIndex
        /\ currentState' = r.currentState
        /\ emitted' = r.emitted
  /\ UNCHANGED << path, updateCallback, locationSubscription, headingSubscription,
                  posWatches, headWatches, trackingPc, sessions, stopped >>
  /\ UNCHANGED plannerVars
  /\ UNCHANGED << estimatorVars, hybridVars, recorderVars, peripheralVars >>

\* skipToNextWaypoint()
SkipToNextWaypoint ==
  /\ LET r == skipToNextWaypoint(path, currentStepIndex, currentState, updateCallback)
     IN /\ currentStepIndex' = r.currentStepIndex
        /\ currentState' = r.currentState
        /\ emitted' = r.emitted
  /\ UNCHANGED << path, updateCallback, locationSubscription, headingSubscription,
                  posWatches, headWatches, trackingPc, sessions, stopped >>
  /\ UNCHANGED plannerVars
  /\ UNCHANGED << estimatorVars, hybridVars, recorderVars, peripheralVars >>

Next ==
  \/ \E route \in Routes : StartNavigation(route)
  \/ StartTracking
  \/ \E granted \in BOOLEAN : PermissionResolved(granted)
  \/ PositionWatchResolved
  \/ HeadingWatchResolved
  \/ StopTracking
  \/ \E lat \in Northings, acc \in Accuracies : LocationUpdate(lat, acc)
  \/ \E headingData \in HeadingReadings : HeadingUpdate(headingData)
  \/ SkipToNextWaypoint

Spec == Init /\ [][Next]_vars

\* ------------------------------------------------------------ tracker claims
\* metres between a reported northing and a waypoint
MetresTo(lat, waypoint) == IF lat >= waypoint.latitude THEN lat - waypoint.latitude
                           ELSE waypoint.latitude - lat

ActiveWaypoint == path[currentStepIndex + 1]

RouteLoaded == Len(path) > 0

\* the fix a position update has stored
FixLat == currentState.currentLocation.latitude

FixAcc == currentState.currentLocation.accuracy

\* this step is handleLocationUpdate on one of the fixes
IsLocationUpdate ==
  /\ FixLat' \in Northings /\ FixAcc' \in Accuracies
  /\ LocationUpdate(FixLat', FixAcc')

\* C2: while the active waypoint is not the final one, a position update
\* advances the tracker if and only if the distance to the active waypoint is
\* strictly less than max(10, accuracy + 5) metres.
C2_AdaptiveThreshold ==
  [][(RouteLoaded /\ currentStepIndex < Len(path) - 1 /\ IsLocationUpdate)
       => ((currentStepIndex' > currentStepIndex)
             <=> (MetresTo(FixLat', ActiveWaypoint)
                    < (IF FixAcc' + 5 > 10 THEN FixAcc' + 5 ELSE 10)))]_vars

\* a fix with accuracy 20 m at 24 m from waypoint 1 has moved the tracker to
\* waypoint 2, 30 m away
C2_Witness ==
  /\ Len(path) = 4 /\ currentStepIndex = 2
  /\ currentState.currentLocation = [latitude |-> 6, longitude |-> 0, accuracy |-> 20]
  /\ currentState.currentStepIndex = 2 /\ currentState.distanceToNext = 30
  /\ emitted = 1

NavFields == << currentStepIndex, currentState.currentStepIndex, currentState.distanceToNext,
                currentState.bearingToNext, currentState.isArrived >>

\* C5: an update received while no route is loaded or after arrival changes
\* neither the index, the distance, the bearing nor the arrival flag.
C5_NoOpWhenIdleOrArrived ==
  [][((~ RouteLoaded \/ currentState.isArrived) /\ IsLocationUpdate)
       => NavFields' = NavFields]_vars

\* C6: startNavigation with a non-empty route leaves the arrival flag false.
C6_StartResetsArrival ==
  [][\A route \in Routes :
       (StartNavigation(route) /\ Len(route) > 0) => ~ currentState'.isArrived]_vars

\* C7: startNavigation sets the active index to 1 for a route of two or more
\* waypoints and to 0 for a shorter one, and no update, heading update or
\* skip moves the index back afterwards.
C7_StartIndexOnce ==
  [][/\ \A route \in Routes :
          StartNavigation(route) => currentStepIndex' = (IF Len(route) >= 2 THEN 1 ELSE 0)
     /\ ~ StartNavigation(path')
          => /\ currentStepIndex' >= currentStepIndex
             /\ RouteLoaded => currentStepIndex' <= Len(path) - 1]_vars

\* an update was processed on a one-waypoint route: the index is still 0
C7_Witness ==
  /\ Len(path) = 1 /\ currentStepIndex = 0
  /\ currentState.totalSteps = 1 /\ currentState.currentStepIndex = 0
  /\ currentState.nextWaypoint = << Waypoint(30) >>
  /\ emitted = 1

\* C4: once stopTracking has returned (and startTracking has not been called
\* again), no snapshot is delivered to the subscriber.
C4_NoDeliveryAfterStop == [][stopped => emitted' = 0]_vars

\* ------------------------------------------------------------ planner claims
\* C1: when every edge weight is strictly positive and start and goal are
\* connected, the path aStar returns costs no more than any path between them.
C1_Optimal ==
  (aPc = "done" /\ PositiveWeights(graph) /\ Connected(graph, startId, goalId))
    => /\ ~ aResult.isNull
       /\ PathCost(graph, aResult.path, 1) <= MinCost(graph, startId, goalId)

\* a returned path of three edges that beats a costlier route to the goal
C1_Witness ==
  /\ aPc = "done" /\ PositiveWeights(graph) /\ ~ aResult.isNull
  /\ Len(aResult.path) = 4
  /\ PathCost(graph, aResult.path, 1) = 44
  /\ Len(connections) = 5

\* C8: when the goal is not reachable from the start, aStar returns null.
C8_NoPath ==
  (aPc = "done" /\ startId \in DOMAIN graph.nodes /\ goalId \in DOMAIN graph.nodes
     /\ ~ Connected(graph, startId, goalId))
    => aResult = NullResult

\* the search ran over part of the graph and ended with null
C8_Witness ==
  /\ aPc = "done" /\ startId \in DOMAIN graph.nodes /\ goalId \in DOMAIN graph.nodes
  /\ ~ Connected(graph, startId, goalId)
  /\ Cardinality(closedSet) >= 3
  /\ aResult = NullResult

\* C11: every path aStar returns begins with the coordinates of the start,
\* ends with the coordinates of the goal, and every two consecutive waypoints
\* are the coordinates of two nodes joined by an edge of the graph.
C11_PathValid ==
  (aPc = "done" /\ ~ aResult.isNull) => IsGraphPath(aResult.path, startId, goalId)

\* a returned path over two intermediate nodes
C11_Witness ==
  /\ aPc = "done" /\ ~ aResult.isNull
  /\ startId = "A" /\ goalId = "E" /\ locations = Layout1
  /\ Len(aResult.path) = 4
  /\ aResult.path[2] # aResult.path[1] /\ aResult.path[3] # aResult.path[4]

\* C12: a request from a node of the graph to itself returns the one-element
\* path of that node's coordinates, and the route computed for it has total
\* distance 0.
C12_SameNode ==
  (aPc = "done" /\ startId = goalId /\ startId \in DOMAIN graph.nodes)
    => /\ aResult = [isNull |-> FALSE, path |-> << locations[startId] >>]
       /\ LET route == dbCalculateRoute(locations, connections, startId, goalId)
          IN route.kind = "route" /\ route.path = << locations[startId] >>
             /\ route.distance = 0 /\ route.steps = 1

\* a request from C to C on a graph where C has three connections
C12_Witness ==
  /\ aPc = "done" /\ startId = "C" /\ goalId = "C"
  /\ aResult = [isNull |-> FALSE, path |-> << locations["C"] >>]
  /\ Cardinality({ i \in 1..Len(graph.edges) :
                     graph.edges[i].from = "C" \/ graph.edges[i].to = "C" }) = 3

\* ---------------------------------------------------- planner claims, continued
\* the node the next pass of the while loop takes from the open set
CurrentNode == openSet[lowestF(openSet, 1, 2)]

\* C25: the node a pass of the loop takes from the open set and expands has
\* not been closed before: no identifier is expanded twice in one run.
C25_NoReexpansion == aPc = "loop" => CurrentNode.id \notin closedSet

\* C26: the open set never holds two candidates for the same identifier.
C26_OpenSetUnique ==
  \A i, j \in 1..Len(openSet) : openSet[i].id = openSet[j].id => i = j

\* the connections that name an identifier without a location, as edges
DanglingEdges ==
  SelectSeq([j \in 1..Len(connections) |->
               [from |-> connections[j].from, to |-> connections[j].to, distance |-> 0]],
            LAMBDA e : e.from \notin DOMAIN locations \/ e.to \notin DOMAIN locations)

\* C27: every edge createGraph builds has both ends in the node mapping, the
\* edges are exactly the connections between known locations, and aStar on a
\* graph that carries edges to identifiers without node data returns what it
\* returns without them.
C27_WellFormed ==
  /\ \A i \in 1..Len(graph.edges) :
       graph.edges[i].from \in DOMAIN graph.nodes /\ graph.edges[i].to \in DOMAIN graph.nodes
  /\ Len(graph.edges) = Cardinality({ j \in 1..Len(connections) :
                                        /\ connections[j].from \in DOMAIN locations
                                        /\ connections[j].to \in DOMAIN locations })
  /\ aPc = "done"
       => aStar([graph EXCEPT !.edges = DanglingEdges \o @], startId, goalId) = aResult

\* a route from C was found although C is listed with a connection to Z
C27_Witness ==
  /\ aPc = "done" /\ ~ aResult.isNull
  /\ startId = "C" /\ Len(aResult.path) >= 3
  /\ Len(DanglingEdges) = 1
  /\ Len(graph.edges) = Len(connections) - 1

\* C28: a route exists from the start to the goal exactly when one exists
\* from the goal to the start, and the two cost the same, whatever direction
\* the connections are listed in.
C28_Bidirectional ==
  aPc = "done"
    => LET back == aStar(graph, goalId, startId)
       IN /\ back.isNull = aResult.isNull
          /\ ~ aResult.isNull => PathCost(graph, back.path, 1) = PathCost(graph, aResult.path, 1)

\* the route D, B, A over connections listed as A-B and B-D only
C28_Witness ==
  /\ aPc = "done" /\ ~ aResult.isNull
  /\ connections = << [from |-> "A", to |-> "B"], [from |-> "B", to |-> "D"] >>
  /\ startId = "D" /\ goalId = "A"
  /\ Len(aResult.path) = 3

\* C29: the node expanded next is, among the open candidates of minimal f,
\* the one inserted first, and the path a run ends with is the value of
\* aStar for the graph and the endpoints.
C29_Deterministic ==
  /\ aPc = "loop"
       => LET i == lowestF(openSet, 1, 2)
          IN \A j \in 1..Len(openSet) :
               \/ getF(openSet[j]) > getF(openSet[i])
               \/ getF(openSet[j]) = getF(openSet[i]) /\ j >= i
  /\ aPc = "done" => aResult = aStar(graph, startId, goalId)

\* two open candidates for different nodes share the minimal f
C29_Witness ==
  /\ aPc = "loop"
  /\ \E i, j \in 1..Len(openSet) :
       /\ i < j /\ openSet[i].id # openSet[j].id
       /\ getF(openSet[i]) = getF(openSet[j])
       /\ \A k \in 1..Len(openSet) : getF(openSet[k]) >= getF(openSet[i])

\* --------------------------------------------------- tracker claims, continued
\* C13: skipToNextWaypoint advances whatever the distance is: with a waypoint
\* other than the last one active the index grows by exactly one, and with
\* the last one active the tracker becomes arrived.
C13_SkipAdvances ==
  [][(RouteLoaded /\ SkipToNextWaypoint)
       => IF currentStepIndex < Len(path) - 1
          THEN currentStepIndex' = currentStepIndex + 1
          ELSE currentState'.isArrived]_vars

\* this step is handleHeadingUpdate on one of the readings
IsHeadingUpdate == \E headingData \in HeadingReadings : HeadingUpdate(headingData)

\* the snapshot in currentState is computed against the active waypoint
SnapshotFresh ==
  /\ Len(path) > 0
  /\ currentState.currentStepIndex = currentStepIndex
  /\ currentState.totalSteps = Len(path)
  /\ currentState.nextWaypoint = << ActiveWaypoint >>
  /\ currentState.distanceToNext = MetresTo(FixLat, ActiveWaypoint)
  /\ currentState.bearingToNext = (IF ActiveWaypoint.latitude < FixLat THEN 180 ELSE 0)

\* C14 as stated: every snapshot handed to the subscriber carries the active
\* index, the active waypoint path[currentStepIndex], and the distance and
\* bearing from the current fix to that waypoint.
C14_EverySnapshotFresh == [][emitted' > 0 => SnapshotFresh']_vars

\* C14 amended: every snapshot emitted by a position update, a heading update
\* or a skip from a waypoint that is not the last one carries the active
\* index and the waypoint, distance and bearing of the new active waypoint,
\* also when that update passed one or more waypoints.
C14_NoStaleLag ==
  [][(emitted' > 0
        /\ (IsLocationUpdate \/ IsHeadingUpdate
              \/ (currentStepIndex < Len(path) - 1 /\ SkipToNextWaypoint)))
       => SnapshotFresh']_vars

\* one position update has passed two waypoints and its snapshot shows the
\* final waypoint, 34 m away
C14_Witness ==
  /\ Len(path) = 4 /\ currentStepIndex = 3
  /\ currentState.currentLocation = [latitude |-> 26, longitude |-> 0, accuracy |-> 20]
  /\ currentState.currentStepIndex = 3 /\ currentState.distanceToNext = 34
  /\ currentState.nextWaypoint = << Waypoint(60) >>
  /\ emitted = 1

\* ------------------------------------------- navigation with tracking running
\* compass readings of a device turned through the whole circle
CompassReadings ==
  HeadingReadings \cup { [trueHeading |-> 180, magHeading |-> 170],
                         [trueHeading |-> 270, magHeading |-> 260] }

\* the tracker once startTracking has returned: the callback is set and both
\* watches are registered
NavInit ==
  /\ PlannerIdle
  /\ path = << >>
  /\ currentStepIndex = 0
  /\ currentState = InitialState
  /\ updateCallback = TRUE
  /\ locationSubscription = Subscribed
  /\ headingSubscription = Subscribed
  /\ posWatches = 1 /\ headWatches = 1
  /\ trackingPc = "none"
  /\ sessions = 1
  /\ emitted = 0
  /\ stopped = FALSE
  /\ EstimatorInit
  /\ HybridInit /\ RecorderInit /\ PeripheralInit

NavNext ==
  \/ \E route \in Routes : StartNavigation(route)
  \/ \E lat \in Northings, acc \in Accuracies : LocationUpdate(lat, acc)
  \/ \E headingData \in CompassReadings : HeadingUpdate(headingData)
  \/ SkipToNextWaypoint

SpecNav == NavInit /\ [][NavNext]_vars

\* C15: the relative bearing of every emitted snapshot is the bearing to the
\* waypoint minus the heading, brought into (-180, 180]: it differs from the
\* difference by a multiple of 360, is never -180 and never outside the
\* interval.
C15_RelativeBearingRange ==
  [][emitted' > 0
       => LET rel == currentState'.relativeBearing
          IN /\ (rel - (currentState'.bearingToNext - currentState'.heading)) % 360 = 0
             /\ rel > -180 /\ rel <= 180]_vars

\* ------------------------------------------------- tracker claims, part three
\* C22: once the empty route has been passed to startNavigation the tracker
\* is idle: the index is 0, and no position update, heading update or skip
\* hands a snapshot to the subscriber or changes the arrival flag.
C22_EmptyRouteIdle ==
  [][path' = << >>
       => /\ emitted' = 0
          /\ currentStepIndex' = 0
          /\ currentState'.isArrived = currentState.isArrived]_vars

\* the empty route replaced a route that was being navigated, and a fix
\* received since then was stored without a recomputation or a snapshot
C22_Witness ==
  /\ path = << >> /\ updateCallback /\ posWatches > 0
  /\ currentState.nextWaypoint # NoWaypoint
  /\ currentState.distanceToNext
       # MetresTo(currentState.currentLocation.latitude, currentState.nextWaypoint[1])
  /\ ~ currentState.isArrived
  /\ emitted = 0

\* C34: with a route loaded the index is within 0 .. path.length - 1, so the
\* active waypoint exists and the branch for an index past the route is never
\* taken, and no position update, heading update or skip makes it smaller
\* (only a new startNavigation sets it back).
C34_IndexBounds ==
  [][/\ hasRoute(path') => (0 <= currentStepIndex' /\ currentStepIndex' <= Len(path') - 1)
     /\ (hasRoute(path) /\ currentStepIndex' < currentStepIndex)
          => \E route \in Routes : StartNavigation(route)]_vars

\* on a route of four waypoints the index has moved from 1 to the last
\* waypoint, and a skip there has set the arrival flag
C34_Witness ==
  /\ Len(path) = 4 /\ currentStepIndex = 3
  /\ StartIndex(path) = 1
  /\ currentState.isArrived /\ currentState.currentStepIndex = 3
  /\ currentState.distanceToNext >= ArrivalCheck
  /\ emitted = 1

\* this step is handleHeadingUpdate on one of the compass readings
IsCompassUpdate == \E headingData \in CompassReadings : HeadingUpdate(headingData)

\* the active waypoint is the final one or at least max(10, accuracy + 5)
\* metres from the stored fix
ActiveWaypointAhead ==
  \/ currentStepIndex = Len(path) - 1
  \/ MetresTo(FixLat, ActiveWaypoint) >= (IF FixAcc + 5 > 10 THEN FixAcc + 5 ELSE 10)

\* C35: after every position update, heading update or skip processed while
\* a route is loaded, the active waypoint is the final waypoint or lies at
\* least max(10, accuracy + 5) metres from the reported position, and the
\* index has not passed the final waypoint.
C35_WaypointsConsumed ==
  [][(RouteLoaded /\ (IsLocationUpdate \/ IsCompassUpdate \/ SkipToNextWaypoint))
       => (currentStepIndex' <= Len(path') - 1 /\ ActiveWaypointAhead')]_vars

\* a fix 4 m before the waypoint at 30 has consumed it and stopped at the
\* waypoint at 36, exactly 10 m ahead and not the final one
C35_Witness ==
  /\ Len(path) = 4 /\ currentStepIndex = 2
  /\ currentState.currentLocation = [latitude |-> 26, longitude |-> 0, accuracy |-> 2]
  /\ currentState.currentStepIndex = 2 /\ currentState.distanceToNext = 10
  /\ MetresTo(FixLat, path[2]) < 10
  /\ emitted = 1

\* ------------------------------------------------------ recorded navigation
\* A route of the planner is navigated with a subscriber that keeps every
\* snapshot it is handed.  Path points become waypoints in metres: northing
\* y, easting x.
ScenarioLayout ==
  [A |-> [x |-> 0, y |-> 0], B |-> [x |-> 3, y |-> 0], C |-> [x |-> 3, y |-> 4],
   D |-> [x |-> 3, y |-> 16]]

ScenarioConnections ==
  { << [from |-> "A", to |-> "B"], [from |-> "B", to |-> "C"] >>,
    << [from |-> "A", to |-> "B"], [from |-> "B", to |-> "C"], [from |-> "C", to |-> "D"] >>,
    << [from |-> "A", to |-> "B"], [from |-> "B", to |-> "C"], [from |-> "A", to |-> "C"] >> }

geoWaypoint(pt) == [latitude |-> pt.y, longitude |-> pt.x]

geoPath(pts) == [i \in 1..Len(pts) |-> geoWaypoint(pts[i])]

\* the fix reported at a location with an accuracy radius
FixAt(id, acc) ==
  [latitude |-> ScenarioLayout[id].y, longitude |-> ScenarioLayout[id].x, accuracy |-> acc]

ScenarioFixes == { FixAt(id, acc) : id \in {"A", "B", "C", "D"}, acc \in {3, 20} }

\* the new fix is written into the object currentLocation refers to
overwriteLocation(objects, coords) == [objects EXCEPT ![Len(objects)] = coords]

\* this.currentState.currentLocation = { latitude, longitude, accuracy }: a
\* new object
storeLocation(objects, coords) == Append(objects, coords)

\* { ...this.currentState }: the fields of cs, currentLocation as a reference
\* to the newest location object
spreadState(cs, objects) == [state |-> cs, locationRef |-> Len(objects)]

\* the subscriber's record after n calls with the snapshot of cs
recordSnapshots(obs, cs, objects, n) == obs \o [i \in 1..n |-> spreadState(cs, objects)]

\* aStar on the scenario graph, then startNavigation(path) with the points
\* of the route found as waypoints
NavigateRoute(conns, goal) ==
  /\ path = << >> /\ observed = << >> /\ Len(locationObjects) = 1
  /\ LET found == aStar(createGraph(ScenarioLayout, conns), "A", goal)
     IN /\ ~ found.isNull
        /\ StartNavigation(geoPath(found.path))

\* a fix is delivered to handleLocationUpdate
RecordedLocationUpdate(coords) ==
  /\ posWatches > 0
  /\ Len(locationObjects) <= MaxFeeds
  /\ Len(observed) < MaxObserved
  /\ LET r == handleLocationUpdate(path, currentStepIndex, currentState, updateCallback, coords)
     IN /\ currentStepIndex' = r.currentStepIndex
        /\ currentState' = r.currentState
        /\ emitted' = r.emitted
        /\ locationObjects' = storeLocation(locationObjects, coords)
        /\ observed' = recordSnapshots(observed, r.currentState, locationObjects', r.emitted)
  /\ UNCHANGED << path, updateCallback, locationSubscription, headingSubscription,
                  posWatches, headWatches, trackingPc, sessions, stopped >>
  /\ UNCHANGED << plannerVars, estimatorVars, hybridVars, peripheralVars >>

\* a compass reading is delivered to handleHeadingUpdate
RecordedHeadingUpdate(headingData) ==
  /\ headWatches > 0
  /\ Len(observed) < MaxObserved
  /\ LET r == handleHeadingUpdate(path, currentStepIndex, currentState, updateCallback, headingData)
     IN /\ currentStepIndex' = r.currentStepIndex
        /\ currentState' = r.currentState
        /\ emitted' = r.emitted
        /\ observed' = recordSnapshots(observed, r.currentState, locationObjects, r.emitted)
  /\ UNCHANGED << path, updateCallback, locationSubscription, headingSubscription,
                  posWatches, headWatches, trackingPc, sessions, stopped >>
  /\ UNCHANGED locationObjects
  /\ UNCHANGED << plannerVars, estimatorVars, hybridVars, peripheralVars >>

\* skipToNextWaypoint()
RecordedSkip ==
  /\ Len(observed) < MaxObserved
  /\ LET r == skipToNextWaypoint(path, currentStepIndex, currentState, updateCallback)
     IN /\ currentStepIndex' = r.currentStepIndex
        /\ currentState' = r.currentState
        /\ emitted' = r.emitted
        /\ observed' = recordSnapshots(observed, r.currentState, locationObjects, r.emitted)
  /\ UNCHANGED << path, updateCallback, locationSubscription, headingSubscription,
                  posWatches, headWatches, trackingPc, sessions, stopped >>
  /\ UNCHANGED locationObjects
  /\ UNCHANGED << plannerVars, estimatorVars, hybridVars, peripheralVars >>

ScenarioNext ==
  \/ \E conns \in ScenarioConnections, goal \in {"C", "D"} : NavigateRoute(conns, goal)
  \/ \E coords \in ScenarioFixes : RecordedLocationUpdate(coords)
  \/ \E headingData \in HeadingReadings : RecordedHeadingUpdate(headingData)
  \/ RecordedSkip

SpecScenario == NavInit /\ [][ScenarioNext]_vars

\* what a reader of a recorded snapshot sees now: its own fields, with
\* currentLocation and nextWaypoint read through the references it holds
SnapshotView(e) ==
  [e.state EXCEPT !.currentLocation = locationObjects[e.locationRef],
                  !.nextWaypoint = IF @ = NoWaypoint THEN NoWaypoint
                                   ELSE << path[e.state.currentStepIndex + 1] >>]

\* C23: every snapshot handed to the subscriber reads now as it read when it
\* was handed over, whatever updates and waypoint transitions came after it.
C23_SnapshotImmutable ==
  \A i \in 1..Len(observed) : SnapshotView(observed[i]) = observed[i].state

\* a snapshot was followed by a fix at another place and a waypoint
\* transition
C23_Witness ==
  /\ Len(observed) >= 2
  /\ observed[1].state.currentLocation # currentState.currentLocation
  /\ observed[1].state.currentStepIndex # currentState.currentStepIndex
  /\ observed[1].state.nextWaypoint # NoWaypoint
  /\ observed[1].locationRef < Len(locationObjects)

\* C24: with a route loaded and a subscriber registered, every position
\* update, heading update and skip hands exactly one snapshot to the
\* subscriber, the state the handler ends with, however many waypoints the
\* update passes.
C24_OneSnapshotPerUpdate ==
  [][(path' = path /\ hasRoute(path) /\ updateCallback)
       => /\ emitted' = 1
          /\ Len(observed') = Len(observed) + 1
          /\ observed'[Len(observed')].state = currentState']_vars

\* the only event on the route A, B, C, D was a fix that passed B and C: one
\* snapshot, with D active
C24_Witness ==
  /\ Len(path) = 4 /\ updateCallback
  /\ Len(locationObjects) = 2 /\ Len(observed) = 1
  /\ observed[1].state.currentStepIndex = 3
  /\ emitted = 1

\* the scenario: route A, B, C; fixes at A, B, C with accuracy 3 m, and
\* nothing else
ScenarioRun ==
  /\ path = geoPath(<< ScenarioLayout["A"], ScenarioLayout["B"], ScenarioLayout["C"] >>)
  /\ locationObjects = << InitialState.currentLocation, FixAt("A", 3), FixAt("B", 3), FixAt("C", 3) >>
  /\ Len(observed) = 3

\* the waypoints the recorded snapshots report as reached: each step of the
\* index, and the arrival at the last waypoint
Advancements ==
  LET last == observed[Len(observed)].state
      arrived == { k \in 1..Len(observed) :
                      /\ observed[k].state.isArrived
                      /\ k > 1 => ~ observed[k - 1].state.isArrived }
  IN (last.currentStepIndex - StartIndex(path)) + Cardinality(arrived)

motionState == << currentPosition, velocity, heading, lastUpdateTime, stepDetector >>

\* initialize(): isInitialized is set when device motion is available
ARInitialize(supported) ==
  /\ isInitialized' = (isInitialized \/ supported)
  /\ notified' = 0
  /\ UNCHANGED << isTracking, callbacks, motionSubscription, gpsSubscription, motionListeners,
                  gpsWatches, testIntervals, arPc, startingGPS, clock, samples, fixTimestamp >>
  /\ UNCHANGED motionState
  /\ UNCHANGED << plannerVars, trackerVars, hybridVars, recorderVars, peripheralVars >>

\* startTracking(callback?) up to its await of watchPositionAsync: the
\* callback is added, the test interval and the motion listener are started
ARStartTracking(withCallback) ==
  /\ isInitialized
  /\ arPc = "none"
  /\ testIntervals < MaxSessions
  /\ callbacks' = (IF withCallback THEN callbacks \cup {"callback"} ELSE callbacks)
  /\ testIntervals' = testIntervals + 1
  /\ motionListeners' = motionListeners + 1
  /\ motionSubscription' = Subscribed
  /\ arPc' = "gps"
  /\ notified' = 0
  /\ UNCHANGED << isInitialized, isTracking, gpsSubscription, gpsWatches, startingGPS,
                  clock, samples, fixTimestamp >>
  /\ UNCHANGED motionState
  /\ UNCHANGED << plannerVars, trackerVars, hybridVars, recorderVars, peripheralVars >>

\* watchPositionAsync resolves (the watch is registered) or rejects (caught);
\* startTracking sets isTracking and returns
ARGpsWatchResolved(available) ==
  /\ arPc = "gps"
  /\ gpsWatches' = (IF available THEN gpsWatches + 1 ELSE gpsWatches)
  /\ gpsSubscription' = (IF available THEN Subscribed ELSE gpsSubscription)
  /\ isTracking' = TRUE
  /\ arPc' = "none"
  /\ notified' = 0
  /\ UNCHANGED << isInitialized, callbacks, motionSubscription, motionListeners, testIntervals,
                  startingGPS, clock, samples, fixTimestamp >>
  /\ UNCHANGED motionState
  /\ UNCHANGED << plannerVars, trackerVars, hybridVars, recorderVars, peripheralVars >>

\* the tracking fields of the estimator and the listeners registered
ARTracking ==
  [motionSubscription |-> motionSubscription, gpsSubscription |-> gpsSubscription,
   motionListeners |-> motionListeners, gpsWatches |-> gpsWatches,
   callbacks |-> callbacks, isTracking |-> isTracking]

\* ARCoreService.stopTracking() on the tracking fields e
arStopTracking(e) ==
  [motionSubscription |-> NoSubscription, gpsSubscription |-> NoSubscription,
   motionListeners |-> RemoveWatch(e.motionListeners, e.motionSubscription),
   gpsWatches |-> RemoveWatch(e.gpsWatches, e.gpsSubscription),
   callbacks |-> {}, isTracking |-> FALSE]

\* stopTracking()
ARStopTracking ==
  /\ LET e == arStopTracking(ARTracking)
     IN /\ motionListeners' = e.motionListeners
        /\ gpsWatches' = e.gpsWatches
        /\ motionSubscription' = e.motionSubscription
        /\ gpsSubscription' = e.gpsSubscription
        /\ callbacks' = e.callbacks
        /\ isTracking' = e.isTracking
  /\ notified' = 0
  /\ UNCHANGED << isInitialized, testIntervals, arPc, startingGPS, clock, samples, fixTimestamp >>
  /\ UNCHANGED motionState
  /\ UNCHANGED << plannerVars, trackerVars, hybridVars, recorderVars, peripheralVars >>

\* setStartingPosition(latitude, longitude, mapX, mapY)
SetStartingPosition(anchor) ==
  /\ startingGPS' = << anchor >>
  /\ currentPosition' = [x |-> anchor.x, y |-> anchor.y]
  /\ velocity' = [x |-> 0, y |-> 0]
  /\ notified' = 0
  /\ UNCHANGED << isInitialized, isTracking, callbacks, motionSubscription, gpsSubscription,
                  motionListeners, gpsWatches, testIntervals, arPc, heading, lastUpdateTime,
                  stepDetector, clock, samples, fixTimestamp >>
  /\ UNCHANGED << plannerVars, trackerVars, hybridVars, recorderVars, peripheralVars >>

\* time passes
ClockAdvances ==
  /\ clock < ClockStart + MaxTicks * Tick
  /\ clock' = clock + Tick
  /\ notified' = 0
  /\ UNCHANGED << isInitialized, isTracking, callbacks, motionSubscription, gpsSubscription,
                  motionListeners, gpsWatches, testIntervals, arPc, startingGPS, samples,
                  fixTimestamp >>
  /\ UNCHANGED motionState
  /\ UNCHANGED << plannerVars, trackerVars, hybridVars, recorderVars, peripheralVars >>

\* the device motion listener delivers a sample to processMotionData
ProcessMotionData(data) ==
  /\ motionListeners > 0
  /\ samples < MaxSamples
  /\ samples' = samples + 1
  /\ IF data.hasData
     THEN LET r == processMotionData([heading |-> heading, stepDetector |-> stepDetector,
                                      velocity |-> velocity, currentPosition |-> currentPosition,
                                      lastUpdateTime |-> lastUpdateTime], data, clock)
          IN /\ heading' = r.heading
             /\ stepDetector' = r.stepDetector
             /\ velocity' = r.velocity
             /\ currentPosition' = r.currentPosition
             /\ lastUpdateTime' = r.lastUpdateTime
             /\ notified' = notifyPositionUpdate(startingGPS, callbacks)
     ELSE /\ notified' = 0
          /\ UNCHANGED motionState
  /\ UNCHANGED << isInitialized, isTracking, callbacks, motionSubscription, gpsSubscription,
                  motionListeners, gpsWatches, testIntervals, arPc, startingGPS, clock,
                  fixTimestamp >>
  /\ UNCHANGED << plannerVars, trackerVars, hybridVars, recorderVars, peripheralVars >>

\* the position watch delivers a fix to fuseGPSData
FuseGPSData(fix) ==
  /\ gpsWatches > 0
  /\ samples < MaxSamples
  /\ samples' = samples + 1
  /\ fixTimestamp' = clock - fix.age
  /\ currentPosition' = fuseGPSData(startingGPS, currentPosition, fix)
  /\ notified' = 0
  /\ UNCHANGED << isInitialized, isTracking, callbacks, motionSubscription, gpsSubscription,
                  motionListeners, gpsWatches, testIntervals, arPc, velocity, heading,
                  lastUpdateTime, startingGPS, stepDetector, clock >>
  /\ UNCHANGED << plannerVars, trackerVars, hybridVars, recorderVars, peripheralVars >>

\* the test interval of startTracking fires
TestInterval(move) ==
  /\ testIntervals > 0
  /\ samples < MaxSamples
  /\ samples' = samples + 1
  /\ IF startingGPS = NoAnchor
     THEN /\ notified' = 0
          /\ UNCHANGED currentPosition
     ELSE /\ currentPosition' = [x |-> currentPosition.x + move.dx, y |-> currentPosition.y + move.dy]
          /\ notified' = notifyPositionUpdate(startingGPS, callbacks)
  /\ UNCHANGED << isInitialized, isTracking, callbacks, motionSubscription, gpsSubscription,
                  motionListeners, gpsWatches, testIntervals, arPc, velocity, heading,
                  lastUpdateTime, startingGPS, stepDetector, clock, fixTimestamp >>
  /\ UNCHANGED << plannerVars, trackerVars, hybridVars, recorderVars, peripheralVars >>

EstimatorStart == PlannerIdle /\ TrackerInit /\ EstimatorInit /\ HybridInit /\ RecorderInit /\ PeripheralInit

EstimatorNext ==
  \/ \E supported \in BOOLEAN : ARInitialize(supported)
  \/ \E withCallback \in BOOLEAN : ARStartTracking(withCallback)
  \/ \E available \in BOOLEAN : ARGpsWatchResolved(available)
  \/ ARStopTracking
  \/ \E anchor \in Anchors : SetStartingPosition(anchor)
  \/ ClockAdvances
  \/ \E data \in MotionSamples : ProcessMotionData(data)
  \/ \E fix \in GpsFixes : FuseGPSData(fix)
  \/ \E move \in RandomMoves : TestInterval(move)

SpecEstimator == EstimatorStart /\ [][EstimatorNext]_vars

\* the estimator once initialize() and startTracking(callback) have returned:
\* the callback, the test interval, the motion listener and the position
\* watch are in place
MotionInit ==
  /\ PlannerIdle /\ TrackerInit
  /\ isInitialized = TRUE /\ isTracking = TRUE
  /\ callbacks = {"callback"}
  /\ motionSubscription = Subscribed /\ gpsSubscription = Subscribed
  /\ motionListeners = 1 /\ gpsWatches = 1 /\ testIntervals = 1
  /\ arPc = "none"
  /\ EstimatorFields
  /\ HybridInit /\ RecorderInit /\ PeripheralInit

MotionNext ==
  \/ \E anchor \in Anchors : SetStartingPosition(anchor)
  \/ ClockAdvances
  \/ \E data \in MotionSamples : ProcessMotionData(data)
  \/ \E fix \in GpsFixes : FuseGPSData(fix)
  \/ \E move \in RandomMoves : TestInterval(move)

SpecMotion == MotionInit /\ [][MotionNext]_vars

\* ---------------------------------------------------------- estimator claims
IsFuseGPSData == \E fix \in GpsFixes : FuseGPSData(fix)

IsProcessMotionData == \E data \in MotionSamples : ProcessMotionData(data)

\* the blend weight the fusion policy gives an accuracy, in tenths
PolicyWeight(accuracy) ==
  IF accuracy <= 5 THEN 8 ELSE IF accuracy <= 15 THEN 5 ELSE 0

\* the convex combination of a position and a fix with weight w tenths
Blend(pos, gps, w) ==
  [x |-> (pos.x * (10 - w) + gps.x * w) \div 10, y |-> (pos.y * (10 - w) + gps.y * w) \div 10]

\* C16: on an absolute fix the calibrated estimator blends the fix into the
\* position with weight 0.8 when the accuracy is at most 5 m, 0.5 when it is
\* above 5 m and at most 15 m, and 0 (position unchanged) when it exceeds 15 m.
C16_FusionWeighting ==
  [][\A fix \in GpsFixes :
       (startingGPS # NoAnchor /\ FuseGPSData(fix))
         => currentPosition' = Blend(currentPosition, gpsMapPosition(startingGPS[1], fix),
                                     PolicyWeight(fix.accuracy))]_vars

\* C17: a fix whose timestamp is older than that of the fix applied before it
\* is dropped: it leaves the position estimate as it was.
C17_OutOfOrderDropped ==
  [][fixTimestamp' < fixTimestamp => currentPosition' = currentPosition]_vars

\* C18: while no anchor is set, getCurrentPosition returns null, no callback
\* is called by a motion sample or the timer, and a fix is not fused into
\* the position.
C18_Uncalibrated ==
  [][startingGPS' = NoAnchor
       => /\ getCurrentPosition(startingGPS', currentPosition', heading') = << >>
          /\ notified' = 0
          /\ currentPosition' = currentPosition \/ ~ IsFuseGPSData]_vars

\* without an anchor, with a callback registered: a strong motion sample was
\* processed (a step was counted) and a fix was delivered, nobody was called
C18_Witness ==
  /\ startingGPS = NoAnchor /\ callbacks # {}
  /\ stepDetector.stepCount = 1 /\ fixTimestamp > 0
  /\ currentPosition # [x |-> 0, y |-> 0]
  /\ samples = 2 /\ notified = 0

\* the acceleration magnitude of a sample
Magnitude(data) ==
  Sqrt(data.acceleration.x * data.acceleration.x + data.acceleration.y * data.acceleration.y
       + data.acceleration.z * data.acceleration.z)

\* C19: a motion sample counts as a step only when its acceleration magnitude
\* exceeds 1.5 and more than 300 ms have passed since the last counted step;
\* a counted step is therefore more than 300 ms after the one before it, and
\* a sample that is not counted (like every other event) leaves the step
\* count and the last-step time unchanged.
C19_StepDebounce ==
  [][/\ stepDetector'.stepCount # stepDetector.stepCount
          => \A data \in MotionSamples :
               ProcessMotionData(data)
                 => /\ Magnitude(data) > 1500
                    /\ clock - stepDetector.lastStepTime > 300
                    /\ stepDetector'.stepCount = stepDetector.stepCount + 1
                    /\ stepDetector'.lastStepTime = clock
     /\ stepDetector'.stepCount = stepDetector.stepCount => stepDetector' = stepDetector
     /\ stepDetector' = stepDetector \/ IsProcessMotionData]_vars

\* a step was counted, and a second strong sample exactly 300 ms later was
\* not (both strong samples carry the reading 10: the heading is 3.6 degrees)
C19_Witness ==
  /\ stepDetector = [lastStepTime |-> ClockStart, stepCount |-> 1]
  /\ lastUpdateTime = ClockStart + 2 * Tick
  /\ heading = 2250
  /\ samples = 2

\* C20: a smoothing step moves the heading by a fifth of the signed shortest
\* difference to the raw reading (at most 180 degrees in magnitude), and the
\* heading stays in [0, 360); from 0 the readings 350, 10 take it to 358 and
\* then over the 0/360 boundary to 0.4, never along the long arc.
C20_HeadingShortArc ==
  [][samples' # samples
       => \A data \in MotionSamples :
            (data.hasData /\ ProcessMotionData(data))
              => /\ heading' >= 0 /\ heading' < FullCircle
                 /\ \E turns \in {-1, 0, 1} :
                      LET d == data.alpha * HeadingScale - heading + turns * FullCircle
                      IN /\ Abs(d) <= HalfCircle
                         /\ heading' = (heading + d \div 5 + FullCircle) % FullCircle]_vars

\* the readings 350 and 10 were smoothed from heading 0: the heading is 0.4
C20_Witness ==
  /\ heading = (2 * HeadingScale) \div 5
  /\ samples = 2
  /\ lastUpdateTime = clock
\* ------------------------------------------------------- service lifecycle
\* the fields of the hybrid service
HybridTracking == [isTracking |-> hybridIsTracking, callbacks |-> hybridCallbacks]

\* HybridNavigationService.stopTracking() on the hybrid fields h and the
\* estimator's tracking fields e
hybridStopTracking(h, e) ==
  IF ~ h.isTracking THEN [hybrid |-> h, arCore |-> e]
  ELSE [hybrid |-> [isTracking |-> FALSE, callbacks |-> {}], arCore |-> arStopTracking(e)]

\* HybridNavigationService.startTracking(callback?) up to its await of
\* arCoreService.initialize(); a call while tracking returns at once
HybridStartTracking(withCallback) ==
  /\ hybridPc = "none"
  /\ hybridIsTracking \/ hybridSessions < MaxSessions
  /\ IF hybridIsTracking
     THEN UNCHANGED hybridVars
     ELSE /\ hybridCallbacks' = (IF withCallback THEN hybridCallbacks \cup {"callback"}
                                 ELSE hybridCallbacks)
          /\ hybridIsTracking' = TRUE
          /\ hybridPc' = "initialize"
          /\ hybridSessions' = hybridSessions + 1
  /\ notified' = 0
  /\ UNCHANGED << isInitialized, isTracking, callbacks, motionSubscription, gpsSubscription,
                  motionListeners, gpsWatches, testIntervals, arPc, startingGPS,
                  clock, samples, fixTimestamp >>
  /\ UNCHANGED motionState
  /\ UNCHANGED << plannerVars, trackerVars, recorderVars, peripheralVars >>

\* arCoreService.initialize() resolves inside startARCoreTracking: then
\* arCoreService.startTracking(listener) runs up to its await, or throws when
\* the service is not initialized; the rest of the hybrid startTracking only
\* logs or rethrows
HybridInitialized(supported) ==
  /\ hybridPc = "initialize"
  /\ isInitialized' = (isInitialized \/ supported)
  /\ IF isInitialized'
     THEN /\ arPc = "none"
          /\ testIntervals < MaxSessions
          /\ callbacks' = callbacks \cup {"hybrid"}
          /\ testIntervals' = testIntervals + 1
          /\ motionListeners' = motionListeners + 1
          /\ motionSubscription' = Subscribed
          /\ arPc' = "gps"
     ELSE UNCHANGED << callbacks, testIntervals, motionListeners, motionSubscription, arPc >>
  /\ hybridPc' = "none"
  /\ notified' = 0
  /\ UNCHANGED << hybridIsTracking, hybridCallbacks, hybridSessions >>
  /\ UNCHANGED << isTracking, gpsSubscription, gpsWatches, startingGPS, clock, samples,
                  fixTimestamp >>
  /\ UNCHANGED motionState
  /\ UNCHANGED << plannerVars, trackerVars, recorderVars, peripheralVars >>

\* HybridNavigationService.stopTracking()
HybridStopTracking ==
  /\ LET r == hybridStopTracking(HybridTracking, ARTracking)
     IN /\ hybridIsTracking' = r.hybrid.isTracking
        /\ hybridCallbacks' = r.hybrid.callbacks
        /\ motionListeners' = r.arCore.motionListeners
        /\ gpsWatches' = r.arCore.gpsWatches
        /\ motionSubscription' = r.arCore.motionSubscription
        /\ gpsSubscription' = r.arCore.gpsSubscription
        /\ callbacks' = r.arCore.callbacks
        /\ isTracking' = r.arCore.isTracking
  /\ notified' = 0
  /\ UNCHANGED << hybridPc, hybridSessions >>
  /\ UNCHANGED << isInitialized, testIntervals, arPc, startingGPS, clock, samples, fixTimestamp >>
  /\ UNCHANGED motionState
  /\ UNCHANGED << plannerVars, trackerVars, recorderVars, peripheralVars >>

LifecycleNext ==
  \/ StartTracking
  \/ \E granted \in BOOLEAN : PermissionResolved(granted)
  \/ PositionWatchResolved
  \/ HeadingWatchResolved
  \/ StopTracking
  \/ \E supported \in BOOLEAN : ARInitialize(supported)
  \/ \E withCallback \in BOOLEAN : ARStartTracking(withCallback)
  \/ \E available \in BOOLEAN : ARGpsWatchResolved(available)
  \/ ARStopTracking
  \/ \E withCallback \in BOOLEAN : HybridStartTracking(withCallback)
  \/ \E supported \in BOOLEAN : HybridInitialized(supported)
  \/ HybridStopTracking

SpecLifecycle == Init /\ [][LifecycleNext]_vars

\* C21: in every state of the three services, started or not, a stopTracking
\* call removes only subscriptions that are registered (nothing it calls can
\* fail), a second call right after it changes nothing, and on a service
\* that was never started the call changes nothing at all.
C21_StopIdempotent ==
  LET t == stopTracking(GeoTracking)
      e == arStopTracking(ARTracking)
      h == hybridStopTracking(HybridTracking, ARTracking)
  IN /\ stopTracking(t) = t
     /\ arStopTracking(e) = e
     /\ hybridStopTracking(h.hybrid, h.arCore) = h
     /\ t.posWatches >= 0 /\ t.headWatches >= 0
     /\ e.motionListeners >= 0 /\ e.gpsWatches >= 0
     /\ h.arCore.motionListeners >= 0 /\ h.arCore.gpsWatches >= 0
     /\ sessions = 0 => t = GeoTracking
     /\ testIntervals = 0 => e = ARTracking
     /\ hybridSessions = 0 => h = [hybrid |-> HybridTracking, arCore |-> ARTracking]

\* all three services were started and have been stopped: the tracker with
\* both watches registered, the estimator through the hybrid service
C21_Witness ==
  /\ sessions > 0 /\ stopped /\ trackingPc = "none"
  /\ GeoTracking = stopTracking(GeoTracking) /\ posWatches = 0 /\ headWatches = 0
  /\ hybridSessions > 0 /\ ~ hybridIsTracking /\ hybridPc = "none"
  /\ testIntervals > 0 /\ arPc = "none"
  /\ ARTracking = arStopTracking(ARTracking) /\ motionListeners = 0 /\ gpsWatches = 0

\* ------------------------------------------------------- path instructions
\* navigationUtils.ts.  Waypoints are points of the unit square, so every
\* segment runs in one of eight directions and Math.atan2 is exact in whole
\* degrees; distances are in thousandths.
InstructionPoints == { [x |-> px, y |-> py] : px \in 0..1, py \in 0..1 }

RECURSIVE PathsOfLength(_)
PathsOfLength(n) ==
  IF n = 0 THEN { << >> }
  ELSE { Append(pts, pt) : pts \in PathsOfLength(n - 1), pt \in InstructionPoints }

InstructionPaths == UNION { PathsOfLength(n) : n \in 0..MaxPathLen }

\* calculateDistance(point1, point2), in thousandths
calculateDistance(point1, point2) ==
  LET dx == point2.x - point1.x
      dy == point2.y - point1.y
  IN Sqrt(1000000 * (dx * dx + dy * dy))

\* Math.atan2(dy, dx) in degrees, -180 < angle <= 180, for the eight
\* directions and the zero displacement
atan2Degrees(dy, dx) ==
  IF dy = 0 THEN (IF dx < 0 THEN 180 ELSE 0)
  ELSE IF dx = 0 THEN (IF dy > 0 THEN 90 ELSE -90)
  ELSE IF dy > 0 THEN (IF dx > 0 THEN 45 ELSE 135)
  ELSE (IF dx > 0 THEN -45 ELSE -135)

\* calculateBearing(from, to): (bearing + 360) % 360
calculateBearing(from, to) == (atan2Degrees(to.y - from.y, to.x - from.x) + 360) % 360

\* the remainder of JavaScript's %, which has the sign of the dividend
JsRem(a, b) == IF a >= 0 THEN a % b ELSE 0 - ((0 - a) % b)

\* normalizeAngle(angle)
normalizeAngle(angle) ==
  LET normalized == JsRem(angle, 360)
  IN IF normalized > 180 THEN normalized - 360
     ELSE IF normalized < -180 THEN normalized + 360
     ELSE normalized

\* generateTurnInstruction(currentBearing, nextBearing)
generateTurnInstruction(currentBearing, nextBearing) ==
  LET angleDiff == normalizeAngle(nextBearing - currentBearing)
      absAngle == Abs(angleDiff)
  IN IF absAngle < 15 THEN "Continue straight"
     ELSE IF absAngle < 45 THEN (IF angleDiff > 0 THEN "Slight right" ELSE "Slight left")
     ELSE IF absAngle < 135 THEN (IF angleDiff > 0 THEN "Turn right" ELSE "Turn left")
     ELSE "Turn around"

\* the instruction pushed by the loop for the segment that starts at
\* path[i] (i counts from 0 as in the source)
segmentInstruction(pts, i) ==
  LET current == pts[i + 1]
      next == pts[i + 2]
  IN [instruction |-> IF i > 0
                      THEN generateTurnInstruction(calculateBearing(pts[i], current),
                                                   calculateBearing(current, next))
                      ELSE "Continue straight",
      distance |-> calculateDistance(current, next),
      waypoint |-> << next >>,
      stepIndex |-> i + 1]

\* the result is returned without the arrival entry
withoutArrival(instrs, pts) == instrs

\* the arrival entry pushed after the loop
withArrival(instrs, pts) ==
  Append(instrs, [instruction |-> "You have arrived at your destination", distance |-> 0,
                  waypoint |-> << pts[Len(pts)] >>, stepIndex |-> Len(pts)])

\* generatePathInstructions(path); an entry without waypoint and stepIndex
\* carries << >> and 0 for them
generatePathInstructions(pts) ==
  IF Len(pts) < 2
  THEN << [instruction |-> "You have arrived", distance |-> 0, waypoint |-> << >>,
           stepIndex |-> 0] >>
  ELSE withArrival([k \in 1..(Len(pts) - 1) |-> segmentInstruction(pts, k - 1)], pts)

\* a path is about to be passed to generatePathInstructions
InstructionInit ==
  /\ PlannerIdle /\ TrackerInit /\ EstimatorInit /\ HybridInit /\ RecorderInit
  /\ BackendIdle /\ ScreenIdle /\ WatchIdle
  /\ instructionInput \in InstructionPaths
  /\ instructions = << >>
  /\ instructionPc = "call"

\* generatePathInstructions(path) returns
GeneratePathInstructions ==
  /\ instructionPc = "call"
  /\ instructions' = generatePathInstructions(instructionInput)
  /\ instructionPc' = "done"
  /\ UNCHANGED instructionInput
  /\ UNCHANGED << plannerVars, trackerVars, estimatorVars, hybridVars, recorderVars >>
  /\ UNCHANGED << backendVars, screenVars, watchVars >>

InstructionNext == GeneratePathInstructions

SpecInstructions == InstructionInit /\ [][InstructionNext]_vars

\* C31: for a path of n >= 2 waypoints generatePathInstructions returns n
\* entries: one per segment in order (its distance, its end waypoint, its
\* step number), the first saying 'Continue straight', then the arrival
\* entry of distance 0; for an empty or single-point path it returns the one
\* entry 'You have arrived'.
C31_PathInstructions ==
  instructionPc = "done" =>
    LET n == Len(instructionInput)
    IN IF n >= 2
       THEN /\ Len(instructions) = n
            /\ instructions[1].instruction = "Continue straight"
            /\ \A k \in 1..(n - 1) :
                 /\ instructions[k].waypoint = << instructionInput[k + 1] >>
                 /\ instructions[k].stepIndex = k
                 /\ instructions[k].distance
                      = calculateDistance(instructionInput[k], instructionInput[k + 1])
                 /\ instructions[k].instruction # "You have arrived at your destination"
            /\ instructions[n].instruction = "You have arrived at your destination"
            /\ instructions[n].distance = 0
       ELSE /\ Len(instructions) = 1
            /\ instructions[1].instruction = "You have arrived"

\* a three-point path with a right-angle turn has been processed
C31_Witness ==
  /\ instructionPc = "done"
  /\ Len(instructionInput) = 3
  /\ Len(instructions) = 3
  /\ instructions[2].instruction \in {"Turn right", "Turn left"}

\* ---------------------------------------------------------- backend planner
\* backend/src/utils/aStarAlgorithm.js.  Locations lie on the x axis, so the
\* Euclidean distance is |dx|.  A Map is a function on the location ids with
\* Undefined (NoKey in cameFrom) for a missing key; the open Set is the sequence of its members
\* in insertion order; null is the string "null".
BackendIds == {"S", "M", "G"}

Undefined == 0 - 1

\* the value of cameFrom for a missing key
NoKey == ""

\* the connection lists of the locations: a chain, a direct link beside an
\* isolated location, an unreachable G, and a triangle
BackendLinks ==
  { [S |-> << "M" >>, M |-> << "S", "G" >>, G |-> << "M" >>],
    [S |-> << "G" >>, M |-> << >>, G |-> << "S" >>],
    [S |-> << "M" >>, M |-> << "S" >>, G |-> << >>],
    [S |-> << "M", "G" >>, M |-> << "S", "G" >>, G |-> << "S", "M" >>] }

\* the locations with G at gx and M at mx, every connection carrying the
\* distance dist (0: no distance stored)
BackendLocationsOf(links, gx, mx, dist) ==
  [id \in BackendIds |->
     [locationId |-> id,
      coordinates |-> [x |-> IF id = "S" THEN 0 ELSE IF id = "G" THEN gx ELSE mx],
      connections |-> [k \in 1..Len(links[id]) |-> [locationId |-> links[id][k], distance |-> dist]]]]

\* heuristic(loc1, loc2)
backendHeuristic(loc1, loc2) == Abs(loc1.coordinates.x - loc2.coordinates.x)

\* getNeighbors(locationId): [] for an id that is not a location
getNeighbors(locs, locationId) ==
  IF locationId \notin BackendIds THEN << >>
  ELSE LET location == locs[locationId]
       IN [k \in 1..Len(location.connections) |->
             LET conn == location.connections[k]
                 neighbor == locs[conn.locationId]
             IN [location |-> neighbor,
                 distance |-> IF conn.distance # 0 THEN conn.distance
                              ELSE backendHeuristic(location, neighbor)]]

\* value || Infinity
OrInfinity(value) == IF value = Undefined \/ value = 0 THEN Infinity ELSE value

\* reconstructPath(cameFrom, current)
RECURSIVE backendReconstructPath(_, _)
backendReconstructPath(from, current) ==
  IF from[current] = NoKey THEN << current >>
  ELSE Append(backendReconstructPath(from, from[current]), current)

\* the scan of the open set for the lowest fScore, from member i on
RECURSIVE lowestFScore(_, _, _, _, _)
lowestFScore(open, f, i, current, lowest) ==
  IF i > Len(open) THEN current
  ELSE LET score == OrInfinity(f[open[i]])
       IN IF score < lowest THEN lowestFScore(open, f, i + 1, open[i], score)
          ELSE lowestFScore(open, f, i + 1, current, lowest)

InOpen(open, id) == \E k \in 1..Len(open) : open[k] = id

\* the loop over the neighbours of current, from neighbour i on; st holds
\* openSet, cameFrom, gScore and fScore
RECURSIVE visitNeighbors(_, _, _, _, _, _, _)
visitNeighbors(locs, goal, closed, current, neighbors, i, st) ==
  IF i > Len(neighbors) THEN st
  ELSE LET neighbor == neighbors[i].location
           id == neighbor.locationId
           tentativeGScore == st.gScore[current] + neighbors[i].distance
           isNew == ~ InOpen(st.openSet, id)
           better == [openSet |-> IF isNew THEN Append(st.openSet, id) ELSE st.openSet,
                      cameFrom |-> [st.cameFrom EXCEPT ![id] = current],
                      gScore |-> [st.gScore EXCEPT ![id] = tentativeGScore],
                      fScore |-> [st.fScore EXCEPT ![id] = tentativeGScore
                                                           + backendHeuristic(neighbor, locs[goal])]]
       IN IF id \in closed
          THEN visitNeighbors(locs, goal, closed, current, neighbors, i + 1, st)
          ELSE IF ~ isNew /\ tentativeGScore >= OrInfinity(st.gScore[id])
          THEN visitNeighbors(locs, goal, closed, current, neighbors, i + 1, st)
          ELSE visitNeighbors(locs, goal, closed, current, neighbors, i + 1, better)

\* new AStar(locations, connections) and the arguments of a findPath call
BackendInit ==
  /\ PlannerIdle /\ TrackerInit /\ EstimatorInit /\ HybridInit /\ RecorderInit
  /\ InstructionIdle /\ ScreenIdle /\ WatchIdle
  /\ \E links \in BackendLinks, gx \in {0, 4}, mx \in {0, 4}, dist \in {0, 5} :
       backendLocations = BackendLocationsOf(links, gx, mx, dist)
  /\ backendStart \in BackendIds /\ backendGoal \in BackendIds
  /\ backendOpen = << >> /\ backendClosed = {}
  /\ cameFrom = << >> /\ gScore = << >> /\ fScore = << >>
  /\ backendPc = "call" /\ backendResult = << >>

\* findPath(startId, goalId) up to the while loop
FindPathEnter ==
  /\ backendPc = "call"
  /\ IF backendStart = backendGoal
     THEN /\ backendPc' = "done"
          /\ backendResult' = << [path |-> << backendStart >>, distance |-> 0] >>
          /\ UNCHANGED << backendOpen, cameFrom, gScore, fScore >>
     ELSE /\ backendPc' = "loop"
          /\ backendOpen' = << backendStart >>
          /\ cameFrom' = [id \in BackendIds |-> NoKey]
          /\ gScore' = [id \in BackendIds |-> IF id = backendStart THEN 0 ELSE Undefined]
          /\ fScore' = [id \in BackendIds |->
                          IF id = backendStart
                          THEN backendHeuristic(backendLocations[backendStart],
                                                backendLocations[backendGoal])
                          ELSE Undefined]
          /\ UNCHANGED backendResult
  /\ UNCHANGED << backendLocations, backendStart, backendGoal, backendClosed >>
  /\ UNCHANGED << plannerVars, trackerVars, estimatorVars, hybridVars, recorderVars >>
  /\ UNCHANGED << instructionVars, screenVars, watchVars >>

\* the test of the while loop and one iteration of its body
FindPathIterate ==
  /\ backendPc = "loop"
  /\ IF Len(backendOpen) = 0
     THEN /\ backendPc' = "done"
          /\ backendResult' = << [path |-> << >>, distance |-> Infinity] >>
          /\ UNCHANGED << backendOpen, backendClosed, cameFrom, gScore, fScore >>
     ELSE LET current == lowestFScore(backendOpen, fScore, 1, "null", Infinity)
          IN IF current = backendGoal
             THEN /\ backendPc' = "done"
                  /\ backendResult' = << [path |-> backendReconstructPath(cameFrom, backendGoal),
                                          distance |-> gScore[backendGoal]] >>
                  /\ UNCHANGED << backendOpen, backendClosed, cameFrom, gScore, fScore >>
             ELSE LET closed == backendClosed \cup {current}
                      st == visitNeighbors(backendLocations, backendGoal, closed, current,
                                           getNeighbors(backendLocations, current), 1,
                                           [openSet |-> SelectSeq(backendOpen, LAMBDA id : id # current),
                                            cameFrom |-> cameFrom, gScore |-> gScore,
                                            fScore |-> fScore])
                  IN /\ backendClosed' = closed
                     /\ backendOpen' = st.openSet
                     /\ cameFrom' = st.cameFrom
                     /\ gScore' = st.gScore
                     /\ fScore' = st.fScore
                     /\ UNCHANGED << backendPc, backendResult >>
  /\ UNCHANGED << backendLocations, backendStart, backendGoal >>
  /\ UNCHANGED << plannerVars, trackerVars, estimatorVars, hybridVars, recorderVars >>
  /\ UNCHANGED << instructionVars, screenVars, watchVars >>

BackendNext == FindPathEnter \/ FindPathIterate

\* findPath runs without interruption: the loop goes on while it can
SpecBackend == BackendInit /\ [][BackendNext]_vars /\ WF_vars(BackendNext)

\* C32: every findPath call with existing start and goal returns, a path or
\* the empty-path result, after finitely many iterations, also when
\* locations share coordinates.
C32_FindPathTerminates == <>(backendPc = "done")

\* -------------------------------------------------------- planner progress
\* connection lists with a cycle (A-B-D-A), a connection stored twice (A-B)
\* and, without D-E, a location E that cannot be reached
ProgressConns == << [from |-> "A", to |-> "B"], [from |-> "A", to |-> "C"],
                    [from |-> "B", to |-> "D"], [from |-> "C", to |-> "D"],
                    [from |-> "A", to |-> "B"], [from |-> "D", to |-> "A"],
                    [from |-> "D", to |-> "E"] >>

ProgressLists ==
  { SelectSeq2(ProgressConns, keep, 1) : keep \in SUBSET (1..Len(ProgressConns)) }

\* aStar(graph, startId, goalId) has reached its while loop
ProgressInit ==
  /\ locations \in Layouts
  /\ connections \in ProgressLists
  /\ startId \in {"A", "D", "E"}
  /\ goalId \in {"A", "D", "E"}
  /\ LET st == aStarEnter(createGraph(locations, connections), startId, goalId)
     IN /\ openSet = st.openSet
        /\ closedSet = st.closedSet
        /\ aPc = st.pc
        /\ aResult = st.result
  /\ RouteIdle
  /\ TrackerInit
  /\ EstimatorInit
  /\ HybridInit /\ RecorderInit /\ PeripheralInit

SpecProgress == ProgressInit /\ [][PlannerNext]_vars

\* the locations the search has not closed yet
Unclosed(closed) == Cardinality(DOMAIN locations \ closed)

\* the candidates in the open set for locations that are closed already
Stale(open, closed) == Cardinality({ k \in 1..Len(open) : open[k].id \in closed })

\* C33: every aStar call ends after finitely many passes of its loop, with
\* the goal selected or the open set empty, also on graphs with cycles,
\* connections stored twice and unreachable goals.  Each pass of the loop
\* that does not end the search closes a location that was not closed, or
\* else leaves the closed set as it is and takes a stale candidate from the
\* open set: the pair (unclosed locations, stale candidates) falls in the
\* lexicographic order, which has no infinite descent.
C33_AStarTerminates ==
  aPc = "loop" =>
    LET st == aStarIterate(graph, goalId,
                           [openSet |-> openSet, closedSet |-> closedSet, pc |-> aPc,
                            result |-> aResult])
    IN /\ Len(openSet) > 0
       /\ st.pc \in {"loop", "done"}
       /\ st.pc = "loop" =>
            \/ Unclosed(st.closedSet) < Unclosed(closedSet)
            \/ /\ Unclosed(st.closedSet) = Unclosed(closedSet)
               /\ Stale(st.openSet, st.closedSet) < Stale(openSet, closedSet)
       /\ st.pc = "done" =>
            IF st.result.isNull THEN Len(st.openSet) = 0
            ELSE CurrentNode.id = goalId

\* a search for the unreachable E on a graph with the cycle and the
\* connection stored twice has ended
C33_Witness ==
  /\ aPc = "done" /\ aResult.isNull /\ Len(openSet) = 0
  /\ startId = "A" /\ goalId = "E"
  /\ Len(connections) = 6
  /\ closedSet = {"A", "B", "C", "D"}


\* ------------------------------------------------- update sources after stop
IsTestInterval == \E move \in RandomMoves : TestInterval(move)

\* ARCoreService: a startTracking has returned and stopTracking was the last
\* of the two to run
ARStopped == testIntervals > 0 /\ arPc = "none" /\ ~ isTracking

\* C36: once ARCoreService.stopTracking has returned, no timer, motion
\* listener or position watch created by the startTracking before it changes
\* the estimator's position or calls a callback.
C36_StopStopsEverySource ==
  [][(ARStopped /\ (IsTestInterval \/ IsProcessMotionData \/ IsFuseGPSData))
       => (currentPosition' = currentPosition /\ notified' = 0)]_vars

\* this step is the end of a hybrid startTracking whose
\* arCoreService.startTracking threw 'ARCore not initialized'
HybridStartFailed == hybridPc = "initialize" /\ hybridPc' = "none" /\ ~ isInitialized'

\* C39: when HybridNavigationService.startTracking fails because the
\* underlying initialization or tracking start throws, the service is left
\* with isTracking false.
C39_FailedStartNotTracking == [][HybridStartFailed => ~ hybridIsTracking']_vars

\* --------------------------------------------------------- navigation screen
\* ARNavigationScreen: geoNavigationService.startNavigation(geoPath), then
\* startTracking with a callback that stores the snapshot and calls
\* handleArrival when the snapshot says isArrived.
ScreenRoutes == { << Waypoint(0), Waypoint(30) >>,
                  << Waypoint(0), Waypoint(30), Waypoint(36), Waypoint(60) >> }

ScreenNorthings == {26, 28, 57}

\* the callback of the screen on the result r of a handler, with the
\* tracking fields t and n earlier calls of handleArrival: handleArrival
\* calls geoNavigationService.stopTracking() and shows the alert
screenCallback(r, t, n) ==
  IF r.emitted > 0 /\ r.currentState.isArrived
  THEN [tracking |-> stopTracking(t), arrivals |-> n + 1]
  ELSE [tracking |-> t, arrivals |-> n]

\* what a handler result r leaves in the tracker and the screen
ScreenDelivers(r) ==
  /\ currentStepIndex' = r.currentStepIndex
  /\ currentState' = r.currentState
  /\ emitted' = r.emitted
  /\ LET after == screenCallback(r, GeoTracking, arrivals)
     IN /\ posWatches' = after.tracking.posWatches
        /\ headWatches' = after.tracking.headWatches
        /\ locationSubscription' = after.tracking.locationSubscription
        /\ headingSubscription' = after.tracking.headingSubscription
        /\ arrivals' = after.arrivals
  /\ UNCHANGED << path, updateCallback, trackingPc, sessions, stopped >>
  /\ UNCHANGED << plannerVars, estimatorVars, hybridVars, recorderVars >>
  /\ UNCHANGED << instructionVars, backendVars, watchVars >>

\* a fix of the position watch reaches handleLocationUpdate and the screen
ScreenLocationUpdate(lat, acc) ==
  /\ posWatches > 0
  /\ arrivals < MaxArrivals
  /\ ScreenDelivers(handleLocationUpdate(path, currentStepIndex, currentState, updateCallback,
                                         [latitude |-> lat, longitude |-> 0, accuracy |-> acc]))

\* a reading of the heading watch reaches handleHeadingUpdate and the screen
ScreenHeadingUpdate(headingData) ==
  /\ headWatches > 0
  /\ arrivals < MaxArrivals
  /\ ScreenDelivers(handleHeadingUpdate(path, currentStepIndex, currentState, updateCallback,
                                        headingData))

\* the skip button: geoNavigationService.skipToNextWaypoint()
ScreenSkip ==
  /\ arrivals < MaxArrivals
  /\ ScreenDelivers(skipToNextWaypoint(path, currentStepIndex, currentState, updateCallback))

\* the screen when geoNavigationService.startNavigation(geoPath) has returned
ScreenInit ==
  /\ PlannerIdle
  /\ path \in ScreenRoutes
  /\ currentStepIndex = StartIndex(path)
  /\ currentState = InitialState
  /\ updateCallback = FALSE
  /\ locationSubscription = NoSubscription /\ headingSubscription = NoSubscription
  /\ posWatches = 0 /\ headWatches = 0
  /\ trackingPc = "none"
  /\ sessions = 0 /\ emitted = 0 /\ stopped = FALSE
  /\ EstimatorInit /\ HybridInit /\ RecorderInit /\ PeripheralInit

ScreenNext ==
  \/ StartTracking
  \/ \E granted \in BOOLEAN : PermissionResolved(granted)
  \/ PositionWatchResolved
  \/ HeadingWatchResolved
  \/ \E lat \in ScreenNorthings, acc \in Accuracies : ScreenLocationUpdate(lat, acc)
  \/ \E headingData \in HeadingReadings : ScreenHeadingUpdate(headingData)
  \/ ScreenSkip

SpecScreen == ScreenInit /\ [][ScreenNext]_vars

\* C40: in one navigation session of the screen the arrival handling runs at
\* most once: after the first snapshot with isArrived has been delivered, no
\* position update, heading update or skip delivers another one.
C40_ArrivalOnce == arrivals <= 1

\* --------------------------------------------------------- LocationService
\* Every startWatching call passes a callback of its own, as startGPSTracking
\* does; a call and its callback carry the number of the call, and so does
\* the platform watch the call creates.
WatchFields ==
  [watchId |-> watchId, callbacks |-> locationCallbacks, isWatching |-> isWatching,
   platformWatches |-> platformWatches]

\* the argument of stopWatching() called without a callback
NoCallback == 0

\* stopWatching(callback?) on the fields w
stopWatching(w, callback) ==
  LET remaining == IF callback # NoCallback THEN w.callbacks \ {callback} ELSE w.callbacks
  IN IF remaining = {} /\ w.watchId # NoWatch
     THEN [watchId |-> NoWatch, callbacks |-> remaining, isWatching |-> FALSE,
           platformWatches |-> w.platformWatches \ {w.watchId}]
     ELSE [w EXCEPT !.callbacks = remaining]

\* startWatching(callback, options) up to 'await this.requestPermissions()'
StartWatching(c) ==
  /\ c = watchStarts + 1
  /\ watchPc[c] = "idle"
  /\ watchPc' = [watchPc EXCEPT ![c] = "permission"]
  /\ watchStarts' = c
  /\ UNCHANGED << watchId, locationCallbacks, isWatching, lastKnownPosition, platformWatches,
                  watchFixes, delivered, isNavigating >>
  /\ UNCHANGED << plannerVars, trackerVars, estimatorVars, hybridVars, recorderVars >>
  /\ UNCHANGED << instructionVars, backendVars, screenVars >>

\* requestPermissions resolves in call c: without the permission the call
\* throws; with it the callback is added, and the call returns when
\* isWatching is set or calls watchPositionAsync and awaits it
WatchPermissionResolved(c, granted) ==
  /\ watchPc[c] = "permission"
  /\ locationCallbacks' = (IF granted THEN locationCallbacks \cup {c} ELSE locationCallbacks)
  /\ watchPc' = [watchPc EXCEPT ![c] = IF granted /\ ~ isWatching THEN "watch" ELSE "returned"]
  /\ UNCHANGED << watchId, isWatching, lastKnownPosition, platformWatches, watchStarts,
                  watchFixes, delivered, isNavigating >>
  /\ UNCHANGED << plannerVars, trackerVars, estimatorVars, hybridVars, recorderVars >>
  /\ UNCHANGED << instructionVars, backendVars, screenVars >>

\* watchPositionAsync resolves in call c: the watch is registered with the
\* platform, its subscription is stored in watchId and isWatching is set; or
\* it rejects and the call throws
WatchCreated(c, available) ==
  /\ watchPc[c] = "watch"
  /\ watchPc' = [watchPc EXCEPT ![c] = "returned"]
  /\ IF available
     THEN /\ platformWatches' = platformWatches \cup {c}
          /\ watchId' = c
          /\ isWatching' = TRUE
     ELSE UNCHANGED << platformWatches, watchId, isWatching >>
  /\ UNCHANGED << locationCallbacks, lastKnownPosition, watchStarts, watchFixes, delivered,
                  isNavigating >>
  /\ UNCHANGED << plannerVars, trackerVars, estimatorVars, hybridVars, recorderVars >>
  /\ UNCHANGED << instructionVars, backendVars, screenVars >>

\* what a stopWatching call leaves in the service
WatchStops(callback) ==
  /\ LET w == stopWatching(WatchFields, callback)
     IN /\ watchId' = w.watchId
        /\ locationCallbacks' = w.callbacks
        /\ isWatching' = w.isWatching
        /\ platformWatches' = w.platformWatches
  /\ UNCHANGED << lastKnownPosition, watchPc, watchStarts, watchFixes, delivered >>
  /\ UNCHANGED << plannerVars, trackerVars, estimatorVars, hybridVars, recorderVars >>
  /\ UNCHANGED << instructionVars, backendVars, screenVars >>

\* stopWatching(callback) with the callback of call c
StopWatching(c) ==
  /\ watchPc[c] # "idle"
  /\ WatchStops(c)
  /\ UNCHANGED isNavigating

\* actions.startNavigation of the NavigationContext
ContextStartNavigation ==
  /\ isNavigating' = TRUE
  /\ UNCHANGED << watchId, locationCallbacks, isWatching, lastKnownPosition, platformWatches,
                  watchPc, watchStarts, watchFixes, delivered >>
  /\ UNCHANGED << plannerVars, trackerVars, estimatorVars, hybridVars, recorderVars >>
  /\ UNCHANGED << instructionVars, backendVars, screenVars >>

\* actions.stopNavigation of the NavigationContext: STOP_NAVIGATION is
\* dispatched and LocationService.stopWatching() is called without argument
ContextStopNavigation ==
  /\ isNavigating' = FALSE
  /\ WatchStops(NoCallback)

\* a fix of the platform watch w: lastKnownPosition is replaced and the
\* throttled notifyCallbacks hands it to every callback in the set
WatchFix(w) ==
  /\ w \in platformWatches
  /\ watchFixes < MaxWatchFixes
  /\ watchFixes' = watchFixes + 1
  /\ lastKnownPosition' = << watchFixes + 1 >>
  /\ delivered' = locationCallbacks
  /\ UNCHANGED << watchId, locationCallbacks, isWatching, platformWatches, watchPc, watchStarts,
                  isNavigating >>
  /\ UNCHANGED << plannerVars, trackerVars, estimatorVars, hybridVars, recorderVars >>
  /\ UNCHANGED << instructionVars, backendVars, screenVars >>

WatchNext ==
  \/ \E c \in WatchCalls : StartWatching(c)
  \/ \E c \in WatchCalls, granted \in BOOLEAN : WatchPermissionResolved(c, granted)
  \/ \E c \in WatchCalls, available \in BOOLEAN : WatchCreated(c, available)
  \/ \E c \in WatchCalls : StopWatching(c)
  \/ ContextStartNavigation
  \/ ContextStopNavigation
  \/ \E w \in WatchCalls : WatchFix(w)

SpecWatch == Init /\ [][WatchNext]_vars

\* C37: when NavigationContext.stopNavigation runs after startGPSTracking
\* has registered its callback and the watch exists, the watch subscription
\* is removed from the platform and no callback is left to receive a fix.
C37_StopNavigationStopsGps ==
  [][(ContextStopNavigation /\ isNavigating /\ locationCallbacks # {} /\ watchId # NoWatch)
       => (watchId' = NoWatch /\ platformWatches' = {} /\ locationCallbacks' = {})]_vars

\* C38: at most one position watch is registered with the platform, and it
\* is the one whose subscription watchId holds.
C38_OneWatch ==
  /\ Cardinality(platformWatches) <= 1
  /\ platformWatches # {} => watchId \in platformWatches

====
